---- MODULE Spec2Model ----
(***************************************************************************)
(* Podcast generator agent (podcast-generator/src/index.ts, stored in the  *)
(* tree as src/article-fetcher/README.md from line 15 on).                 *)
(*                                                                         *)
(* A text is a run-length encoded string: a sequence of runs [c, n], the   *)
(* character c repeated n times, adjacent runs having different            *)
(* characters.  A message content is a sequence of lexical tokens.         *)
(* The digest of computeDialogueHash is modelled by its preimage, the      *)
(* canonical list that is serialised and hashed (SHA-256 taken to be       *)
(* collision free).                                                        *)
(***************************************************************************)
EXTENDS Integers, Sequences, FiniteSets, TLC

\* ---------------------------------------------------------------- bounds
MaxBatch == 2

\* ------------------------------------------------------ program constants
MaxTextLen == 600
MaxLines == 100
MaxSendLen == 200000

CORAL_AGENT_ID == "podcast_generator"

\* ------------------------------------------------------------------ texts
Run(c, n) == [c |-> c, n |-> n]

IsSpace(c) == c \in {" ", "\t", "\n"}

\* A text value that is not a JSON string (missing key, number, null).
NotAString == << Run("?", 0) >>

RECURSIVE TextLength(_)
TextLength(t) ==
    IF t = << >> THEN 0 ELSE Head(t).n + TextLength(Tail(t))

\* s.replace(/\s+/g, " "): every maximal run of whitespace becomes one space
RECURSIVE CollapseFrom(_, _)
CollapseFrom(t, i) ==
    IF i > Len(t) THEN << >>
    ELSE IF IsSpace(t[i].c)
         THEN IF i > 1 /\ IsSpace(t[i - 1].c)
              THEN CollapseFrom(t, i + 1)
              ELSE << Run(" ", 1) >> \o CollapseFrom(t, i + 1)
         ELSE << t[i] >> \o CollapseFrom(t, i + 1)

Collapse(t) == CollapseFrom(t, 1)

\* s.trim() on a collapsed text
TrimText(t) ==
    LET a == IF t # << >> /\ IsSpace(t[1].c) THEN Tail(t) ELSE t
    IN  IF a # << >> /\ IsSpace(a[Len(a)].c) THEN SubSeq(a, 1, Len(a) - 1) ELSE a

NormalizeNoTrim(t) == Collapse(t)

NormalizeText(t) == TrimText(Collapse(t))

SafeTextOkOffByOne(s) == TextLength(s) > 0 /\ TextLength(s) <= MaxTextLen + 1

\* the refine of safeText, applied to the transformed string
SafeTextOk(s) == TextLength(s) > 0 /\ TextLength(s) <= MaxTextLen

\* --------------------------------------------------------------- schema
NoVoice == "<undefined>"

RawLine(t, v) == [text |-> t, voice_id |-> v]

\* voice_id: z.string()
VoiceOk(v) == v # NoVoice

LineOk(l) ==
    /\ l.text # NotAString
    /\ SafeTextOk(NormalizeText(l.text))
    /\ VoiceOk(l.voice_id)

LineOut(l) == [text |-> NormalizeText(l.text), voice_id |-> l.voice_id]

Failure == [ok |-> FALSE, lines |-> << >>]

\* the lines come out in reverse order
ParseLinesReversed(arr) ==
    IF /\ Len(arr) >= 1
       /\ Len(arr) <= MaxLines
       /\ \A i \in 1..Len(arr) : LineOk(arr[i])
    THEN [ok |-> TRUE, lines |-> [i \in 1..Len(arr) |-> LineOut(arr[Len(arr) + 1 - i])]]
    ELSE Failure

\* z.array(lineSchema).min(1).max(100).safeParse(arr)
ParseLines(arr) ==
    IF /\ Len(arr) >= 1
       /\ Len(arr) <= MaxLines
       /\ \A i \in 1..Len(arr) : LineOk(arr[i])
    THEN [ok |-> TRUE, lines |-> [i \in 1..Len(arr) |-> LineOut(arr[i])]]
    ELSE Failure

\* A parsed JSON object: the keys the program looks at.
JsonObj(hd, d, hi, i, f) ==
    [hasDialogue |-> hd, dialogue |-> d, hasInputs |-> hi, inputs |-> i, force |-> f]

\* dialogueSchema.safeParse(obj)
ParseDialogueSchema(obj) ==
    IF obj.hasDialogue THEN ParseLines(obj.dialogue) ELSE Failure

\* inputsSchema.safeParse(obj)
ParseInputsSchema(obj) ==
    IF obj.hasInputs THEN ParseLines(obj.inputs) ELSE Failure

\* attempt(obj) of tryParse: dialogue first, then inputs
Attempt(obj) ==
    IF ParseDialogueSchema(obj).ok THEN ParseDialogueSchema(obj)
    ELSE ParseInputsSchema(obj)

\* z.array(lineSchema).min(1).parse(direct) in attemptLocal
ReParseLines(arr) ==
    IF Len(arr) >= 1 /\ \A i \in 1..Len(arr) : LineOk(arr[i])
    THEN [ok |-> TRUE, lines |-> [i \in 1..Len(arr) |-> LineOut(arr[i])]]
    ELSE Failure

\* ------------------------------------------------------ message content
\* Tokens: "ws" whitespace, "prose" words without braces, quotes or
\* backticks, "fence" a triple backtick, "fencejson" a triple backtick
\* directly followed by json, "lbrace" / "rbrace" / "quote" / "esc" (a
\* backslash) / "lbracket" / "rbracket" single characters, "obj" the
\* serialisation of a well-formed JSON object.
NoObj == JsonObj(FALSE, << >>, FALSE, << >>, "absent")

Tok(t) == [t |-> t, obj |-> NoObj]

ObjTok(o) == [t |-> "obj", obj |-> o]

FenceKinds == {"fence", "fencejson"}

RECURSIVE TrimLeft(_)
TrimLeft(s) ==
    IF s # << >> /\ Head(s).t = "ws" THEN TrimLeft(Tail(s)) ELSE s

RECURSIVE TrimRight(_)
TrimRight(s) ==
    IF s # << >> /\ s[Len(s)].t = "ws" THEN TrimRight(SubSeq(s, 1, Len(s) - 1)) ELSE s

\* String.prototype.trim on a content
TrimContent(s) == TrimRight(TrimLeft(s))

NoJson == [ok |-> FALSE, obj |-> NoObj]

\* an array of one object
IsArrayText(t) ==
    Len(t) = 3 /\ t[1].t = "lbracket" /\ t[2].t = "obj" /\ t[3].t = "rbracket"

\* JSON.parse(s): surrounding whitespace is allowed, nothing else; an
\* array is a value without the keys dialogue, inputs and force
JsonParse(s) ==
    LET t == TrimContent(s)
    IN  IF Len(t) = 1 /\ t[1].t = "obj" THEN [ok |-> TRUE, obj |-> t[1].obj]
        ELSE IF IsArrayText(t) THEN [ok |-> TRUE, obj |-> NoObj]
        ELSE NoJson

\* least index >= i whose token is of one of the kinds, 0 if none
RECURSIVE FirstFrom(_, _, _)
FirstFrom(s, i, kinds) ==
    IF i > Len(s) THEN 0
    ELSE IF s[i].t \in kinds THEN i ELSE FirstFrom(s, i + 1, kinds)

NoFence == [found |-> FALSE, body |-> << >>]

FenceAt(s, i) ==
    LET j == IF i = 0 THEN 0 ELSE FirstFrom(s, i + 1, FenceKinds)
    IN  IF j = 0 THEN NoFence ELSE [found |-> TRUE, body |-> SubSeq(s, i + 1, j - 1)]

\* the first block, tagged or not
FenceMatchFirstBlock(raw) == FenceAt(raw, FirstFrom(raw, 1, FenceKinds))

\* raw.match(/```json([\s\S]*?)```/i) || raw.match(/```([\s\S]*?)```/)
FenceMatch(raw) ==
    LET tagged == FenceAt(raw, FirstFrom(raw, 1, {"fencejson"}))
    IN  IF tagged.found THEN tagged ELSE FenceAt(raw, FirstFrom(raw, 1, FenceKinds))

NoSlice == [found |-> FALSE, slice |-> << >>]

\* the for loop of extractFirstBalancedJson; an "obj" token is balanced and
\* holds no brace, quote or backslash inside its own string literals; inside
\* a string literal the character after a backslash ("esc") is passed over
RECURSIVE ScanFrom(_, _, _, _, _)
ScanFrom(s, i, depth, inStr, start) ==
    IF i > Len(s) THEN NoSlice
    ELSE LET k == s[i].t IN
         IF inStr
         THEN IF k = "esc" THEN ScanFrom(s, i + 2, depth, TRUE, start)
              ELSE ScanFrom(s, i + 1, depth, k # "quote", start)
         ELSE IF k = "quote" THEN ScanFrom(s, i + 1, depth, TRUE, start)
         ELSE IF k = "lbrace"
              THEN ScanFrom(s, i + 1, depth + 1, FALSE, IF depth = 0 THEN i ELSE start)
         ELSE IF k = "obj"
              THEN IF depth = 0
                   THEN [found |-> TRUE, slice |-> << s[i] >>]
                   ELSE ScanFrom(s, i + 1, depth, FALSE, start)
         ELSE IF k = "rbrace"
              THEN IF depth - 1 = 0 /\ start >= 1
                   THEN [found |-> TRUE, slice |-> SubSeq(s, start, i)]
                   ELSE ScanFrom(s, i + 1, depth - 1, FALSE, start)
         ELSE ScanFrom(s, i + 1, depth, FALSE, start)

extractFirstBalancedJson(raw) ==
    LET i == FirstFrom(raw, 1, {"lbrace", "obj"})
    IN  IF i = 0 THEN NoSlice ELSE ScanFrom(raw, i, 0, FALSE, 0)

NoDialogue == [ok |-> FALSE, lines |-> << >>, via |-> "none"]

Via(r, name) == [ok |-> r.ok, lines |-> r.lines, via |-> name]

ParsedAttempt(s) ==
    IF JsonParse(s).ok THEN Attempt(JsonParse(s).obj) ELSE Failure

\* the brace scan is tried before the fenced block
tryParseScanFirst(raw) ==
    LET direct == ParsedAttempt(raw)
        fence == FenceMatch(raw)
        fenced == IF fence.found /\ fence.body # << >>
                  THEN ParsedAttempt(fence.body) ELSE Failure
        balanced == extractFirstBalancedJson(raw)
        scanned == IF balanced.found THEN ParsedAttempt(balanced.slice) ELSE Failure
    IN  IF direct.ok THEN Via(direct, "direct")
        ELSE IF scanned.ok THEN Via(scanned, "balanced")
        ELSE IF fenced.ok THEN Via(fenced, "fenced")
        ELSE NoDialogue

tryParse(raw) ==
    LET direct == ParsedAttempt(raw)
        fence == FenceMatch(raw)
        fenced == IF fence.found /\ fence.body # << >>
                  THEN ParsedAttempt(fence.body) ELSE Failure
        balanced == extractFirstBalancedJson(raw)
        scanned == IF balanced.found THEN ParsedAttempt(balanced.slice) ELSE Failure
    IN  IF direct.ok THEN Via(direct, "direct")
        ELSE IF fenced.ok THEN Via(fenced, "fenced")
        ELSE IF scanned.ok THEN Via(scanned, "balanced")
        ELSE NoDialogue

\* attemptLocal of extractInputsAsync; threw: the second parse raised
attemptLocal(trimmed) ==
    LET direct == tryParse(trimmed)
        again == ReParseLines(direct.lines)
    IN  IF ~direct.ok THEN [ok |-> FALSE, lines |-> << >>, threw |-> FALSE]
        ELSE [ok |-> again.ok, lines |-> again.lines, threw |-> ~again.ok]

\* force = Boolean(envelope.force) of the first balanced object of the content
Truthy(f) == f \in {"true", "string"}

ForceOf(content) ==
    LET envJson == extractFirstBalancedJson(content)
    IN  IF envJson.found /\ JsonParse(envJson.slice).ok
        THEN Truthy(JsonParse(envJson.slice).obj.force)
        ELSE FALSE

\* ----------------------------------------------------------- dedup guard
NoHash == << >>

\* the voice of a line is left out of the digest
computeDialogueHashTextOnly(inputs) ==
    [i \in 1..Len(inputs) |-> << inputs[i].text, "" >>]

\* the canonical list that is serialised and digested
computeDialogueHash(inputs) ==
    [i \in 1..Len(inputs) |-> << inputs[i].text, inputs[i].voice_id >>]

\* the dedup map entry of thread b is lost as well
shouldSkipSynthesisClearsOthers(hashes, threadId, inputs, force) ==
    LET hash == computeDialogueHash(inputs)
        only == [t \in DOMAIN hashes |-> IF t = threadId THEN hash ELSE NoHash]
    IN  IF force THEN [skip |-> FALSE, hashes |-> only]
        ELSE IF hashes[threadId] # NoHash /\ hashes[threadId] = hash
             THEN [skip |-> TRUE, hashes |-> hashes]
             ELSE [skip |-> FALSE, hashes |-> only]

\* force is not looked at
shouldSkipSynthesisNoForce(hashes, threadId, inputs, force) ==
    LET hash == computeDialogueHash(inputs)
    IN  IF hashes[threadId] # NoHash /\ hashes[threadId] = hash
        THEN [skip |-> TRUE, hashes |-> hashes]
        ELSE [skip |-> FALSE, hashes |-> [hashes EXCEPT ![threadId] = hash]]

\* any stored fingerprint counts as a repeat
shouldSkipSynthesisAnyStored(hashes, threadId, inputs, force) ==
    LET hash == computeDialogueHash(inputs)
    IN  IF force THEN [skip |-> FALSE, hashes |-> [hashes EXCEPT ![threadId] = hash]]
        ELSE IF hashes[threadId] # NoHash
             THEN [skip |-> TRUE, hashes |-> hashes]
             ELSE [skip |-> FALSE, hashes |-> [hashes EXCEPT ![threadId] = hash]]

\* shouldSkipSynthesis: the decision and the map it leaves
shouldSkipSynthesis(hashes, threadId, inputs, force) ==
    LET hash == computeDialogueHash(inputs)
        last == hashes[threadId]
    IN  IF force THEN [skip |-> FALSE, hashes |-> [hashes EXCEPT ![threadId] = hash]]
        ELSE IF last # NoHash /\ last = hash
             THEN [skip |-> TRUE, hashes |-> hashes]
             ELSE [skip |-> FALSE, hashes |-> [hashes EXCEPT ![threadId] = hash]]

\* ------------------------------------------------------------- mentions
\* An identifier or mention string: optional whitespace around it (pad),
\* optional leading @, a name, a suffix that starts with # or : (or is
\* empty).
Id(at, name, suffix) == [pad |-> FALSE, at |-> at, name |-> name, suffix |-> suffix]

Padded(id) == [id EXCEPT !.pad = TRUE]

EmptyString == Id(FALSE, "", "")

ToLowerCase(name) ==
    CASE name = "Podcast_Generator" -> "podcast_generator"
      [] name = "BOB" -> "bob"
      [] name = "Article_Fetcher" -> "article_fetcher"
      [] OTHER -> name

\* String.prototype.trim
Trim(str) == [str EXCEPT !.pad = FALSE]

\* replace(/^@/, ""): only an @ that is the first character
StripAt(str) == IF str.at /\ ~str.pad THEN [str EXCEPT !.at = FALSE] ELSE str

\* split(/[#:]/, 1)[0]
DropSuffix(str) == [str EXCEPT !.suffix = ""]

\* toLowerCase
LowerCase(str) == [str EXCEPT !.name = ToLowerCase(@)]

\* the case of the mention is kept
normalizeMentionKeepsCase(raw) == DropSuffix(StripAt(Trim(raw)))

\* raw.trim().replace(/^@/, "").split(/[#:]/, 1)[0].toLowerCase()
normalizeMention(raw) == LowerCase(DropSuffix(StripAt(Trim(raw))))

AgentId == Id(FALSE, CORAL_AGENT_ID, "")

\* CORAL_AGENT_ID.replace(/^@/, "").toLowerCase()
NORMALIZED_AGENT_ID == LowerCase(StripAt(AgentId))

shouldRespond(m) ==
    /\ m.senderId # AgentId
    /\ m.mentions # << >>
    /\ \E i \in 1..Len(m.mentions) : normalizeMention(m.mentions[i]) = NORMALIZED_AGENT_ID

\* an entry is added although it is there already
AddToSetTwice(s, x) == Append(s, x)

\* insertion into a Set kept in insertion order
AddToSet(s, x) == IF \E i \in 1..Len(s) : s[i] = x THEN s ELSE Append(s, x)

RECURSIVE AddMentions(_, _, _)
AddMentions(s, ms, i) ==
    IF i > Len(ms) THEN s
    ELSE LET n == normalizeMention(ms[i])
         IN  AddMentions(IF n # EmptyString
                            /\ n \notin {NORMALIZED_AGENT_ID, Id(FALSE, "article_fetcher", "")}
                         THEN AddToSet(s, ms[i]) ELSE s, ms, i + 1)

buildMentions(m) ==
    LET first == IF m.senderId # EmptyString THEN << m.senderId >> ELSE << >>
    IN  AddToSet(AddMentions(first, m.mentions, 1), AgentId)

\* ------------------------------------------------------------ transport
\* sendMessage: ok1 / ok2 are the outcomes of the first and of the
\* truncated coral_send_message call
TruncatedKeep == 199000

\* the length of "\n...[truncated]"
TruncationMarkerLen == 15

\* content.slice(0, 199_000) + "\n...[truncated]"
TruncatedLen(len) ==
    (IF len <= TruncatedKeep THEN len ELSE TruncatedKeep) + TruncationMarkerLen

Try(len, ok) == [len |-> len, ok |-> ok]

\* a failed call is retried with the truncated body whatever its length
sendMessageRetriesAlways(len, ok1, ok2) ==
    IF ok1 THEN [calls |-> 1, delivered |-> TRUE, truncated |-> FALSE,
                 tries |-> << Try(len, TRUE) >>]
    ELSE [calls |-> 2, delivered |-> ok2, truncated |-> TRUE,
          tries |-> << Try(len, FALSE), Try(TruncatedLen(len), ok2) >>]

sendMessage(len, ok1, ok2) ==
    IF ok1 THEN [calls |-> 1, delivered |-> TRUE, truncated |-> FALSE,
                 tries |-> << Try(len, TRUE) >>]
    ELSE IF len > MaxSendLen
         THEN [calls |-> 2, delivered |-> ok2, truncated |-> TRUE,
               tries |-> << Try(len, FALSE), Try(TruncatedLen(len), ok2) >>]
    ELSE [calls |-> 1, delivered |-> FALSE, truncated |-> FALSE,
          tries |-> << Try(len, FALSE) >>]

\* ---------------------------------------------------------- environment
NoEnv == "unset"

NaN == [finite |-> FALSE, n |-> 0]

Num(n) == [finite |-> TRUE, n |-> n]

\* Number.parseInt(raw, 10) on the values the environment is given here
ParseInt(raw) ==
    CASE raw = "1000" -> Num(1000)
      [] raw = "9000000" -> Num(9000000)
      [] raw = "12abc" -> Num(12)
      [] raw = "0" -> Num(0)
      [] raw = "-5" -> Num(0 - 5)
      [] OTHER -> NaN

DefaultInlineBytes == 5 * 1024 * 1024

InlineBytesCap == 8 * 1024 * 1024

Min(a, b) == IF a <= b THEN a ELSE b

\* the ceiling without the absolute maximum
MaxInlineBytesOfUncapped(raw) ==
    LET n == IF raw # NoEnv /\ raw # "" THEN ParseInt(raw) ELSE NaN
    IN  IF n.finite /\ n.n > 0 THEN n.n ELSE DefaultInlineBytes

\* MAX_INLINE_BYTES of the generator with the dedup guard
MaxInlineBytesOf(raw) ==
    LET n == IF raw # NoEnv /\ raw # "" THEN ParseInt(raw) ELSE NaN
    IN  Min(IF n.finite /\ n.n > 0 THEN n.n ELSE DefaultInlineBytes, InlineBytesCap)

\* (raw || "").trim().toLowerCase() on the values the environment is given here
TrimLower(raw) ==
    CASE raw = NoEnv -> ""
      [] raw = " TRUE " -> "true"
      [] OTHER -> raw

\* RETURN_BASE64
ReturnBase64Of(raw) == TrimLower(raw) \in {"1", "true"}

\* A format tag is the sequence of its characters; the empty sequence is
\* an unset or empty variable.
DefaultOutputFormat == << "m", "p", "3", "_", "4", "4", "1", "0", "0", "_", "1", "2", "8" >>

\* process.env.ELEVENLABS_OUTPUT_FORMAT || "mp3_44100_128"
OutputFormatOf(raw) == IF raw = << >> THEN DefaultOutputFormat ELSE raw

Env(rb, mib) ==
    [ELEVENLABS_RETURN_BASE64 |-> rb, MAX_INLINE_BYTES |-> mib, ELEVENLABS_OUTPUT_FORMAT |-> << >>]

EnvFormat(fmt) == [Env("true", "1000") EXCEPT !.ELEVENLABS_OUTPUT_FORMAT = fmt]

\* ------------------------------------------------------------- provider
\* A response of the text-to-dialogue endpoint: bytes is the size of the
\* body of a 2xx response.
Response(ok, status, body, bytes) ==
    [ok |-> ok, status |-> status, body |-> body, bytes |-> bytes]

NoResponse == Response(FALSE, 0, "", 0)

NoError == [src |-> "none", status |-> 0, body |-> ""]

\* new Error("ElevenLabs error " + res.status + ": " + txt)
ProviderError(res) == [src |-> "ElevenLabs error", status |-> res.status, body |-> res.body]

\* toLowerCase of one character of a format tag
LowerChar(c) ==
    CASE c = "M" -> "m" [] c = "P" -> "p" [] c = "W" -> "w" [] c = "A" -> "a"
      [] c = "V" -> "v" [] c = "O" -> "o" [] c = "G" -> "g" [] c = "F" -> "f"
      [] c = "L" -> "l" [] c = "C" -> "c" [] c = "H" -> "h" [] c = "T" -> "t"
      [] c = "S" -> "s" [] OTHER -> c

StartsWith(s, prefix) ==
    Len(s) >= Len(prefix) /\ SubSeq(s, 1, Len(prefix)) = prefix

\* only the bare family name is recognised
extFromFormatExact(fmt) ==
    LET f == [i \in 1..Len(fmt) |-> LowerChar(fmt[i])]
    IN  IF f = << "m", "p", "3" >> THEN [ext |-> "mp3", mime |-> "audio/mpeg"]
        ELSE IF f = << "w", "a", "v" >> THEN [ext |-> "wav", mime |-> "audio/wav"]
        ELSE IF f = << "o", "g", "g" >> THEN [ext |-> "ogg", mime |-> "audio/ogg"]
        ELSE IF f = << "f", "l", "a", "c" >> THEN [ext |-> "flac", mime |-> "audio/flac"]
        ELSE [ext |-> "bin", mime |-> "application/octet-stream"]

extFromFormat(fmt) ==
    LET f == [i \in 1..Len(fmt) |-> LowerChar(fmt[i])]
    IN  IF StartsWith(f, << "m", "p", "3" >>) THEN [ext |-> "mp3", mime |-> "audio/mpeg"]
        ELSE IF StartsWith(f, << "w", "a", "v" >>) THEN [ext |-> "wav", mime |-> "audio/wav"]
        ELSE IF StartsWith(f, << "o", "g", "g" >>) THEN [ext |-> "ogg", mime |-> "audio/ogg"]
        ELSE IF StartsWith(f, << "f", "l", "a", "c" >>)
             THEN [ext |-> "flac", mime |-> "audio/flac"]
        ELSE [ext |-> "bin", mime |-> "application/octet-stream"]

NoAudio == [bytes |-> 0, inline |-> FALSE, mime |-> "", format |-> << >>]

\* the payload is put inline even when it is one byte over the ceiling
InlineAudioOverCeiling(returnBase64, bytes, max) == returnBase64 /\ bytes <= max + 1

\* RETURN_BASE64 && buf.length <= MAX_INLINE_BYTES
InlineAudio(returnBase64, bytes, max) == returnBase64 /\ bytes <= max

\* the audio file is written before the status is looked at
synthesizeWithElevenLabsWritesFirst(res, returnBase64, max, fmt) ==
    IF ~res.ok
    THEN [threw |-> TRUE, error |-> ProviderError(res), files |-> 1,
          ext |-> extFromFormat(fmt).ext, audio |-> NoAudio]
    ELSE [threw |-> FALSE, error |-> NoError, files |-> 1, ext |-> extFromFormat(fmt).ext,
          audio |-> [bytes |-> res.bytes, inline |-> InlineAudio(returnBase64, res.bytes, max),
                     mime |-> extFromFormat(fmt).mime, format |-> fmt]]

\* synthesizeWithElevenLabs from the response on: throw on a non-2xx
\* status, else write the file (ext: the extension of its name) and build
\* the result
synthesizeWithElevenLabs(res, returnBase64, max, fmt) ==
    IF ~res.ok
    THEN [threw |-> TRUE, error |-> ProviderError(res), files |-> 0, ext |-> "",
          audio |-> NoAudio]
    ELSE [threw |-> FALSE, error |-> NoError, files |-> 1, ext |-> extFromFormat(fmt).ext,
          audio |-> [bytes |-> res.bytes, inline |-> InlineAudio(returnBase64, res.bytes, max),
                     mime |-> extFromFormat(fmt).mime, format |-> fmt]]

\* ---------------------------------------------------------------- inputs
Ta == << Run("a", 2) >>
TaPadded == << Run(" ", 1), Run("a", 2), Run("\n", 2) >>
Tab == << Run("a", 1), Run(" ", 1), Run("b", 1) >>
TabWide == << Run("a", 1), Run("\t", 1), Run(" ", 2), Run("b", 1) >>
T600 == << Run(" ", 3), Run("a", MaxTextLen), Run(" ", 1) >>
T601 == << Run("a", MaxTextLen + 1) >>
TBlank == << Run(" ", 4) >>

D1 == << RawLine(Ta, "v1") >>
D2 == << RawLine(Ta, "v1"), RawLine(Tab, "v2") >>
D2Spaced == << RawLine(TaPadded, "v1"), RawLine(TabWide, "v2") >>
D2Swapped == << RawLine(Tab, "v2"), RawLine(Ta, "v1") >>
D2Voice == << RawLine(Ta, "v1"), RawLine(Tab, "v1") >>
D600 == << RawLine(T600, "v1") >>
D601 == << RawLine(T601, "v1") >>
DMixed == << RawLine(Ta, "v1"), RawLine(T601, "v2") >>
DBlank == << RawLine(TBlank, "v1") >>
DNoText == << RawLine(NotAString, "v1") >>
DEmptyVoice == << RawLine(Ta, "v1"), RawLine(Tab, "") >>
DNoVoice == << RawLine(Ta, NoVoice) >>
DFull == [i \in 1..MaxLines |-> RawLine(Ta, "v1")]
DOver == [i \in 1..(MaxLines + 1) |-> RawLine(Ta, "v1")]

Dialogue(d, f) == JsonObj(TRUE, d, FALSE, << >>, f)
Inputs(d, f) == JsonObj(FALSE, << >>, TRUE, d, f)

Direct(o) == << ObjTok(o) >>

Threads == {"t1", "t2"}

User == Id(FALSE, "user", "")

Msg(t, s, ms, c) == [threadId |-> t, senderId |-> s, mentions |-> ms, content |-> c]

ToMe(t, c) == Msg(t, User, << Id(TRUE, "Podcast_Generator", "#1") >>, c)

NotAddressed ==
    { Msg("t1", AgentId, << Id(FALSE, CORAL_AGENT_ID, "") >>, Direct(Dialogue(D2, "absent"))),
      Msg("t1", User, << >>, Direct(Dialogue(D2, "absent"))),
      Msg("t1", User, << Id(TRUE, "bob", "") >>, Direct(Dialogue(D2, "absent"))) }

\* what the provider answers in the worlds that are not about the provider
PlainResponses == { Response(TRUE, 200, "", 1000), Response(FALSE, 500, "oops", 0) }

PlainEnv == Env(NoEnv, NoEnv)

\* Messages that exercise extraction and validation, one thread.
ValidationContents ==
    { Direct(Dialogue(d, "absent")) :
        d \in {D600, D601, DMixed, DBlank, DNoText, DEmptyVoice, DNoVoice, DFull, DOver, << >>} }
    \cup { Direct(NoObj),
           << >>,
           << Tok("ws") >>,
           << Tok("prose") >>,
           << Tok("lbrace"), Tok("prose"), Tok("rbrace") >>,
           << Tok("ws"), ObjTok(Inputs(D600, "absent")), Tok("ws") >>,
           << Tok("prose"), Tok("ws"), ObjTok(Dialogue(D1, "absent")), Tok("ws"), Tok("prose") >>,
           << Tok("fence"), ObjTok(Inputs(D1, "absent")), Tok("fence"), Tok("prose") >> }

ValidationWorld ==
    [inbox |-> { ToMe("t1", c) : c \in ValidationContents } \cup NotAddressed,
     answers |-> { Dialogue(d, "absent") : d \in {D1, D601, DEmptyVoice, DOver} }
                 \cup { Inputs(D1, "absent") },
     responses |-> PlainResponses,
     env |-> PlainEnv]

\* Messages that exercise the dedup guard, two threads.
DedupContents ==
    { Direct(Dialogue(d, "absent")) : d \in {D1, D2, D2Spaced, D2Swapped, D2Voice} }
    \cup { Direct(Dialogue(D2, f)) : f \in {"true", "false"} }
    \cup { Direct(Inputs(D2, "true")), << Tok("prose") >> }

DedupWorld ==
    [inbox |-> { ToMe("t1", c) : c \in DedupContents }
               \cup { ToMe("t2", Direct(Dialogue(D2, f))) : f \in {"absent", "true"} }
               \cup NotAddressed,
     answers |-> { Dialogue(D2, "absent"), Dialogue(D601, "absent") },
     responses |-> PlainResponses,
     env |-> PlainEnv]

\* The provider's answers and the inline settings, one thread.
ProviderResponses ==
    { Response(TRUE, 200, "", n) :
        n \in {999, 1000, 1001, DefaultInlineBytes, DefaultInlineBytes + 1,
               InlineBytesCap, InlineBytesCap + 1} }
    \cup { Response(FALSE, 401, "unauthorized", 0), Response(FALSE, 500, "", 0) }

FormatTags ==
    { << "M", "P", "3" >>,
      << "w", "a", "v" >>,
      << "o", "g", "g", "_", "4", "8" >>,
      << "F", "l", "a", "c" >>,
      << "p", "c", "m", "_", "1", "6" >>,
      << "m", "p", "4" >>,
      << "x", "m", "p", "3" >> }

ProviderEnvs ==
    { Env("true", "1000"), Env("", "1000"), Env("yes", "1000"),
      Env(" TRUE ", NoEnv), Env("1", "9000000") }
    \cup { EnvFormat(fmt) : fmt \in FormatTags }
    \cup { Env("true", mib) : mib \in {"", "abc", "0", "-5", "12abc"} }

ProviderWorld(env) ==
    [inbox |-> { ToMe("t1", Direct(Dialogue(D1, "absent"))), ToMe("t1", << Tok("prose") >>) }
               \cup NotAddressed,
     answers |-> { Dialogue(D2, "absent"), Dialogue(D601, "absent") },
     responses |-> ProviderResponses,
     env |-> env]

\* Messages that exercise the mention filter, one thread.
Bob == Id(TRUE, "BOB", "")

MentionLists ==
    { << >>,
      << Bob >>,
      << Id(FALSE, "podcast_generator", "") >>,
      << Bob, Id(TRUE, "Podcast_Generator", ":7") >>,
      << Padded(Id(TRUE, "Podcast_Generator", "#1")) >>,
      << Id(TRUE, "Podcast_Generator", "#1"), Id(TRUE, "Article_Fetcher", ":2"), Bob >>,
      << Bob, Id(FALSE, "podcast_generator", ""), Bob, User, Id(FALSE, "", "#x") >>,
      << Id(FALSE, "podcast", "#generator") >> }

MentionWorld ==
    [inbox |-> { Msg("t1", sender, ms, c) :
                   sender \in {User, AgentId, Id(TRUE, "Podcast_Generator", "")},
                   ms \in MentionLists,
                   c \in {Direct(Dialogue(D1, "absent")), << Tok("prose") >>} },
     answers |-> { Dialogue(D2, "absent"), Dialogue(D601, "absent") },
     responses |-> PlainResponses,
     env |-> PlainEnv]

\* Messages that exercise the local extraction cascade, one thread.
FencedAndLoose ==
    << Tok("prose"), ObjTok(Dialogue(D1, "absent")), Tok("ws"), Tok("fencejson"), Tok("ws"),
       ObjTok(Dialogue(D2, "absent")), Tok("ws"), Tok("fence") >>

FencedThenLoose ==
    << Tok("fence"), ObjTok(Dialogue(D2, "absent")), Tok("fence"), Tok("prose"),
       ObjTok(Dialogue(D1, "absent")) >>

LooseThenInvalidFence ==
    << ObjTok(Dialogue(D1, "absent")), Tok("prose"), Tok("fence"),
       ObjTok(Dialogue(D601, "absent")), Tok("fence") >>

InvalidFenceThenLoose ==
    << Tok("fence"), ObjTok(Dialogue(D601, "absent")), Tok("fence"), Tok("prose"),
       ObjTok(Dialogue(D1, "absent")) >>

ArrayOfDialogue ==
    << Tok("lbracket"), ObjTok(Dialogue(D1, "absent")), Tok("rbracket") >>

QuotedBraceThenObject ==
    << Tok("quote"), Tok("lbrace"), Tok("quote"), Tok("ws"), ObjTok(Dialogue(D1, "absent")) >>

EscapedQuoteInLiteral ==
    << Tok("prose"), Tok("lbrace"), Tok("quote"), Tok("esc"), Tok("quote"), Tok("rbrace"),
       Tok("quote"), Tok("rbrace"), Tok("ws"), ObjTok(Dialogue(D1, "absent")) >>

\* a loose object with force: true before a fenced dialogue without force
ForceInOtherObject ==
    << ObjTok(JsonObj(FALSE, << >>, FALSE, << >>, "true")), Tok("ws"), Tok("fencejson"),
       ObjTok(Dialogue(D1, "absent")), Tok("fence") >>

\* a loose object without force before a fenced dialogue with force: true
ForcedFenceAfterObject ==
    << ObjTok(JsonObj(FALSE, << >>, FALSE, << >>, "absent")), Tok("ws"), Tok("fencejson"),
       ObjTok(Dialogue(D1, "true")), Tok("fence") >>

UntaggedThenTagged ==
    << Tok("fence"), ObjTok(Dialogue(D1, "absent")), Tok("fence"), Tok("prose"),
       Tok("fencejson"), ObjTok(Dialogue(D2, "absent")), Tok("fence") >>

TaggedThenUntagged ==
    << Tok("prose"), Tok("fencejson"), ObjTok(Dialogue(D2, "absent")), Tok("fence"), Tok("ws"),
       Tok("fence"), ObjTok(Dialogue(D1, "absent")), Tok("fence") >>

ParseContents ==
    { << >>,
      Direct(Dialogue(D1, "absent")),
      UntaggedThenTagged,
      TaggedThenUntagged,
      Direct(Dialogue(D1, "string")),
      Direct(Dialogue(D1, "true")),
      ForceInOtherObject,
      ForcedFenceAfterObject,
      Direct(Inputs(D2, "absent")),
      Direct(Dialogue(D601, "absent")),
      FencedAndLoose,
      FencedThenLoose,
      LooseThenInvalidFence,
      InvalidFenceThenLoose,
      ArrayOfDialogue,
      QuotedBraceThenObject,
      EscapedQuoteInLiteral,
      << Tok("fence"), Tok("prose"), Tok("fence"), ObjTok(Inputs(D1, "absent")) >>,
      << Tok("fence"), Tok("fence"), Tok("prose") >>,
      << Tok("prose") >>,
      << Tok("ws") >>,
      << Tok("prose"), Tok("lbrace"), Tok("lbrace"), Tok("prose"), Tok("rbrace") >> }

ParseWorld ==
    [inbox |-> { ToMe("t1", c) : c \in ParseContents } \cup NotAddressed,
     answers |-> { Dialogue(D2Voice, "absent"), Dialogue(D601, "absent") },
     responses |-> PlainResponses,
     env |-> PlainEnv]

Policies == {"always", "fallback", "never"}

BodyLens == {MaxSendLen, MaxSendLen + 1}

\* ----------------------------------------------------------------- state
VARIABLES
    world,                 \* the environment: messages that may arrive, answers of the model
    USE_AI_PARSE,          \* the parse policy, fixed at start
    recentDialogueHashes,  \* thread -> fingerprint of the last accepted dialogue
    pc,                    \* where main / handleMessage stands
    remaining,             \* messages of the polled batch not yet handled
    message,               \* the message being handled (the last one, between messages)
    inputs,                \* handleMessage's inputs
    force,                 \* handleMessage's force
    reply,                 \* the reply handed to sendMessage
    rec,                   \* what was done for the current message
    prev,                  \* thread -> what was done for its last message that reached the guard
    lastSynthesized        \* thread -> fingerprint of the last dialogue the provider synthesized

vars == << world, USE_AI_PARSE, recentDialogueHashes, pc, remaining, message, inputs, force,
           reply, rec, prev, lastSynthesized >>

NoMessage == Msg("", EmptyString, << >>, << >>)

RETURN_BASE64 == ReturnBase64Of(world.env.ELEVENLABS_RETURN_BASE64)

MAX_INLINE_BYTES == MaxInlineBytesOf(world.env.MAX_INLINE_BYTES)

ELEVENLABS_OUTPUT_FORMAT == OutputFormatOf(world.env.ELEVENLABS_OUTPUT_FORMAT)

\* inputs: the dialogue echoed in the reply
NoReply ==
    [kind |-> "none", len |-> 0, mentions |-> << >>, error |-> NoError, audio |-> NoAudio,
     inputs |-> << >>]

\* local: what attemptLocal gave ("none": not run); via: the strategy of
\* tryParse that gave the dialogue; ai: what the language model call gave;
\* posted: the body of the request to the provider;
\* response: what the provider answered; files, ext: the audio files
\* written and the extension of the last; sends: calls of sendMessage;
\* tries: the coral_send_message calls of the last of them; files: audio
\* files written
FreshRec ==
    [addressed |-> FALSE, local |-> "none", via |-> "none", ai |-> "none",
     aiCalls |-> 0, viaAI |-> FALSE, parseError |-> FALSE,
     decided |-> FALSE, force |-> FALSE, dup |-> FALSE, skipped |-> FALSE,
     synthCalls |-> 0, synthOk |-> FALSE, posted |-> [inputs |-> << >>],
     response |-> NoResponse, files |-> 0, ext |-> "",
     sends |-> 0, sendCalls |-> 0, tries |-> << >>,
     delivered |-> << >>, escaped |-> FALSE]

NoPrev ==
    [has |-> FALSE, inputs |-> << >>, raw |-> << >>, force |-> FALSE, dup |-> FALSE,
     synth |-> FALSE]

Start ==
    /\ recentDialogueHashes = [t \in Threads |-> NoHash]
    /\ pc = "poll"
    /\ remaining = 0
    /\ message = NoMessage
    /\ inputs = << >>
    /\ force = FALSE
    /\ reply = NoReply
    /\ rec = FreshRec
    /\ prev = [t \in Threads |-> NoPrev]
    /\ lastSynthesized = [t \in Threads |-> NoHash]

Init ==
    /\ world = ValidationWorld
    /\ USE_AI_PARSE \in Policies
    /\ Start

InitParse ==
    /\ world = ParseWorld
    /\ USE_AI_PARSE \in Policies
    /\ Start

InitMention ==
    /\ world = MentionWorld
    /\ USE_AI_PARSE = "fallback"
    /\ Start

InitProvider ==
    /\ world \in { ProviderWorld(env) : env \in ProviderEnvs }
    /\ USE_AI_PARSE = "fallback"
    /\ Start

InitDedup ==
    /\ world = DedupWorld
    /\ USE_AI_PARSE = "fallback"
    /\ Start

\* ------------------------------------------------------------- main loop
\* waitForMentions returns a batch (empty on timeout or malformed result)
WaitForMentions ==
    /\ pc = "poll"
    /\ \E n \in 0..MaxBatch : remaining' = n
    /\ pc' = "next"
    /\ UNCHANGED << world, USE_AI_PARSE, recentDialogueHashes, message, inputs, force, reply,
                    rec, prev, lastSynthesized >>

\* the poll call throws: caught by the loop, 5 s pause
WaitForMentionsThrows ==
    /\ pc = "poll"
    /\ pc' = "sleep"
    /\ UNCHANGED << world, USE_AI_PARSE, recentDialogueHashes, remaining, message, inputs, force,
                    reply, rec, prev, lastSynthesized >>

Sleep ==
    /\ pc = "sleep"
    /\ pc' = "poll"
    /\ UNCHANGED << world, USE_AI_PARSE, recentDialogueHashes, remaining, message, inputs, force,
                    reply, rec, prev, lastSynthesized >>

BatchDone ==
    /\ pc = "next"
    /\ remaining = 0
    /\ pc' = "poll"
    /\ UNCHANGED << world, USE_AI_PARSE, recentDialogueHashes, remaining, message, inputs, force,
                    reply, rec, prev, lastSynthesized >>

\* -------------------------------------------------------- handleMessage
\* the object of the content that local extraction took the dialogue from
ChosenObject ==
    CASE rec.via = "direct" -> JsonParse(TrimContent(message.content)).obj
      [] rec.via = "fenced" -> JsonParse(FenceMatch(TrimContent(message.content)).body).obj
      [] rec.via = "balanced" ->
             JsonParse(extractFirstBalancedJson(TrimContent(message.content)).slice).obj
      [] OTHER -> NoObj

\* the array of an object that the schemas read: dialogue first, else inputs
DialogueArray(obj) ==
    IF obj.hasDialogue /\ ParseDialogueSchema(obj).ok THEN obj.dialogue
    ELSE IF obj.hasInputs THEN obj.inputs
    ELSE << >>

\* the array of the message that local extraction read, empty when the
\* dialogue is the answer of the language model
SourceArray == IF rec.viaAI THEN << >> ELSE DialogueArray(ChosenObject)

Remember ==
    IF rec.decided
    THEN [prev EXCEPT ![message.threadId] =
             [has |-> TRUE, inputs |-> inputs, raw |-> SourceArray, force |-> rec.force,
              dup |-> rec.dup, synth |-> rec.synthCalls > 0]]
    ELSE prev

\* the loop does not wait for handleMessage: the next message of the batch
\* enters while the provider call of the previous one is pending
HandleMessageNotAwaited ==
    /\ pc \in {"next", "synth"}
    /\ remaining > 0
    /\ \E m \in world.inbox :
         /\ message' = m
         /\ rec' = [FreshRec EXCEPT !.addressed = shouldRespond(m)]
         /\ pc' = IF shouldRespond(m) THEN "extract" ELSE "done"
    /\ remaining' = remaining - 1
    /\ UNCHANGED << world, USE_AI_PARSE, recentDialogueHashes, inputs, force, reply, prev,
                    lastSynthesized >>

\* the next message of the batch enters handleMessage: mention filter
HandleMessage ==
    /\ pc = "next"
    /\ remaining > 0
    /\ \E m \in world.inbox :
         /\ message' = m
         /\ rec' = [FreshRec EXCEPT !.addressed = shouldRespond(m)]
         /\ pc' = IF shouldRespond(m) THEN "extract" ELSE "done"
    /\ remaining' = remaining - 1
    /\ UNCHANGED << world, USE_AI_PARSE, recentDialogueHashes, inputs, force, reply, prev,
                    lastSynthesized >>

\* an exception of handleMessage is swallowed: the batch goes on
ReturnGoesOn ==
    /\ pc = "done"
    /\ pc' = "next"
    /\ remaining' = remaining
    /\ prev' = Remember
    /\ message' = NoMessage
    /\ inputs' = << >>
    /\ force' = FALSE
    /\ reply' = NoReply
    /\ rec' = FreshRec
    /\ UNCHANGED << world, USE_AI_PARSE, recentDialogueHashes, lastSynthesized >>

\* handleMessage returns or throws: its locals are gone; a throw ends the
\* batch and the loop pauses 5 s
Return ==
    /\ pc = "done"
    /\ pc' = IF rec.escaped THEN "sleep" ELSE "next"
    /\ remaining' = IF rec.escaped THEN 0 ELSE remaining
    /\ prev' = Remember
    /\ message' = NoMessage
    /\ inputs' = << >>
    /\ force' = FALSE
    /\ reply' = NoReply
    /\ rec' = FreshRec
    /\ UNCHANGED << world, USE_AI_PARSE, recentDialogueHashes, lastSynthesized >>

ExtractionError == [src |-> "extraction", status |-> 0, body |-> ""]

\* the message is dropped without a reply
ParseErrorSilent(len, local) ==
    /\ reply' = reply
    /\ pc' = "done"
    /\ inputs' = inputs

EmptyContentMessage == "Empty message content; expected JSON with dialogue or inputs"

\* the message of the error that extractInputsAsync throws on the content:
\* its own for empty content and for a local failure under never, that of
\* the second parse of attemptLocal, else that of aiExtractInputsAsync
ExtractionMessage(trimmed, policy, local) ==
    IF trimmed = << >> THEN EmptyContentMessage
    ELSE IF local = "threw" THEN "ZodError"
    ELSE IF policy = "never" THEN "Unable to parse JSON locally and AI parse disabled"
    ELSE "AI parse failed"

\* the catch of the extraction: a {success:false,error} reply; local: how
\* the run of attemptLocal ended ("none": it did not run)
ParseError(len, local) ==
    /\ reply' = [kind |-> "parse_error", len |-> len, mentions |-> buildMentions(message),
                 error |-> [ExtractionError EXCEPT
                               !.body = ExtractionMessage(TrimContent(message.content),
                                                          USE_AI_PARSE, local)],
                 audio |-> NoAudio, inputs |-> << >>]
    /\ pc' = "send"
    /\ inputs' = inputs

Extracted(lines) ==
    /\ inputs' = lines
    /\ pc' = "dedup"
    /\ reply' = reply

\* how a run of attemptLocal ended
LocalOutcome(local) == IF local.ok THEN "ok" ELSE IF local.threw THEN "threw" ELSE "null"

\* attemptLocal has run on the trimmed content
RanLocal(trimmed) ==
    [rec EXCEPT !.local = LocalOutcome(attemptLocal(trimmed)),
                !.via = IF attemptLocal(trimmed).ok THEN tryParse(trimmed).via ELSE "none"]

\* the language model is asked although a dialogue was found locally
AfterLocalAsksAnyway(policy, local) ==
    IF local.threw THEN "error"
    ELSE IF policy = "never" THEN (IF local.ok THEN "dedup" ELSE "error")
    ELSE "ai"

\* the language model is asked under every policy
AfterLocalNeverIgnored(policy, local) ==
    IF local.ok THEN "dedup"
    ELSE IF local.threw THEN "error"
    ELSE "ai"

\* the fallback and never branches of extractInputsAsync after attemptLocal
AfterLocal(policy, local) ==
    IF local.ok THEN "dedup"
    ELSE IF local.threw \/ policy = "never" THEN "error"
    ELSE "ai"

\* extractInputsAsync up to its first await of the language model
\* under always the language model is asked before the content is looked at
ExtractAsksAiFirst ==
    /\ pc = "extract"
    /\ LET trimmed == TrimContent(message.content)
           local == attemptLocal(trimmed)
           after == AfterLocal(USE_AI_PARSE, local)
       IN  \E len \in BodyLens :
             IF USE_AI_PARSE = "always"
             THEN pc' = "ai" /\ UNCHANGED << inputs, reply, rec >>
             ELSE IF trimmed = << >>
             THEN ParseError(len, "none") /\ rec' = [rec EXCEPT !.parseError = TRUE]
             ELSE IF after = "dedup"
             THEN Extracted(local.lines) /\ rec' = RanLocal(trimmed)
             ELSE IF after = "error"
             THEN /\ ParseError(len, LocalOutcome(local))
                  /\ rec' = [RanLocal(trimmed) EXCEPT !.parseError = TRUE]
             ELSE pc' = "ai" /\ rec' = RanLocal(trimmed) /\ UNCHANGED << inputs, reply >>
    /\ UNCHANGED << world, USE_AI_PARSE, recentDialogueHashes, remaining, message, force, prev,
                    lastSynthesized >>

Extract ==
    /\ pc = "extract"
    /\ LET trimmed == TrimContent(message.content)
           local == attemptLocal(trimmed)
           after == AfterLocal(USE_AI_PARSE, local)
       IN  \E len \in BodyLens :
             IF trimmed = << >>
             THEN ParseError(len, "none") /\ rec' = [rec EXCEPT !.parseError = TRUE]
             ELSE IF USE_AI_PARSE = "always"
             THEN pc' = "ai" /\ UNCHANGED << inputs, reply, rec >>
             ELSE IF after = "dedup"
             THEN Extracted(local.lines) /\ rec' = RanLocal(trimmed)
             ELSE IF after = "error"
             THEN /\ ParseError(len, LocalOutcome(local))
                  /\ rec' = [RanLocal(trimmed) EXCEPT !.parseError = TRUE]
             ELSE pc' = "ai" /\ rec' = RanLocal(trimmed) /\ UNCHANGED << inputs, reply >>
    /\ UNCHANGED << world, USE_AI_PARSE, recentDialogueHashes, remaining, message, force, prev,
                    lastSynthesized >>

\* under "always" a failed language model call is final
AiFailedNoRetry(len, how) ==
    /\ ParseError(len, rec.local)
    /\ rec' = [rec EXCEPT !.aiCalls = @ + 1, !.ai = how, !.parseError = TRUE]

\* a failed request to the language model is issued a second time
AiFailedAsksAgain(len, how) ==
    IF rec.aiCalls = 0
    THEN /\ pc' = "ai"
         /\ rec' = [rec EXCEPT !.aiCalls = @ + 1, !.ai = how]
         /\ UNCHANGED << inputs, reply >>
    ELSE /\ ParseError(len, rec.local)
         /\ rec' = [rec EXCEPT !.aiCalls = @ + 1, !.ai = how, !.parseError = TRUE]

\* aiExtractInputsAsync failed (how: "threw" or "invalid"): local retry
\* under "always", else the error
AiFailed(len, how) ==
    LET trimmed == TrimContent(message.content)
        local == attemptLocal(trimmed)
    IN  IF USE_AI_PARSE = "always"
        THEN IF local.ok
             THEN /\ Extracted(local.lines)
                  /\ rec' = [RanLocal(trimmed) EXCEPT !.aiCalls = @ + 1, !.ai = how]
             ELSE /\ ParseError(len, LocalOutcome(local))
                  /\ rec' = [RanLocal(trimmed) EXCEPT !.aiCalls = @ + 1, !.ai = how,
                                                      !.parseError = TRUE]
        ELSE /\ ParseError(len, rec.local)
             /\ rec' = [rec EXCEPT !.aiCalls = @ + 1, !.ai = how, !.parseError = TRUE]

\* the answer of the language model is taken as it is
aiValidateTrusting(obj) ==
    IF obj.hasDialogue THEN [ok |-> TRUE, lines |-> obj.dialogue] ELSE Failure

\* dialogueSchema.parse(parsed).dialogue in aiExtractInputsAsync
aiValidate(obj) == ParseDialogueSchema(obj)

\* the language model answers with an object, validated by dialogueSchema
AiExtractReturns ==
    /\ pc = "ai"
    /\ \E o \in world.answers, len \in BodyLens :
         LET r == aiValidate(o)
         IN  IF r.ok
             THEN /\ Extracted(r.lines)
                  /\ rec' = [rec EXCEPT !.aiCalls = @ + 1, !.ai = "ok", !.viaAI = TRUE]
             ELSE AiFailed(len, "invalid")
    /\ UNCHANGED << world, USE_AI_PARSE, recentDialogueHashes, remaining, message, force, prev,
                    lastSynthesized >>

\* the request fails, or the answer is empty or not JSON
AiExtractThrows ==
    /\ pc = "ai"
    /\ \E len \in BodyLens : AiFailed(len, "threw")
    /\ UNCHANGED << world, USE_AI_PARSE, recentDialogueHashes, remaining, message, force, prev,
                    lastSynthesized >>

AfterGuardAlwaysSynthesize(skip) == "synth"

\* handleMessage lines 443-450: a skipped duplicate returns at once
AfterGuard(skip) == IF skip THEN "done" ELSE "synth"

\* force detection and the dedup guard
Dedup ==
    /\ pc = "dedup"
    /\ LET f == ForceOf(message.content)
           d == shouldSkipSynthesis(recentDialogueHashes, message.threadId, inputs, f)
       IN  /\ force' = f
           /\ recentDialogueHashes' = d.hashes
           /\ rec' = [rec EXCEPT !.decided = TRUE, !.force = f, !.skipped = d.skip,
                                 !.dup = (recentDialogueHashes[message.threadId]
                                            = computeDialogueHash(inputs))]
           /\ pc' = AfterGuard(d.skip)
    /\ UNCHANGED << world, USE_AI_PARSE, remaining, message, inputs, reply, prev, lastSynthesized >>

\* the reply of handleMessage after the try around the synthesis
SynthesisReply(r, len) ==
    [kind |-> IF r.threw THEN "failure" ELSE "success", len |-> len,
     mentions |-> buildMentions(message), error |-> r.error, audio |-> r.audio,
     inputs |-> inputs]

\* body: JSON.stringify({ inputs })
RequestBody(lines) == [inputs |-> lines]

\* synthesizeWithElevenLabs: 2xx answer, file written
SynthesizeOk ==
    /\ pc = "synth"
    /\ \E res \in world.responses, len \in BodyLens :
         LET r == synthesizeWithElevenLabs(res, RETURN_BASE64, MAX_INLINE_BYTES,
                                           ELEVENLABS_OUTPUT_FORMAT)
         IN  /\ res.ok
             /\ rec' = [rec EXCEPT !.synthCalls = @ + 1, !.synthOk = TRUE, !.response = res,
                                   !.posted = RequestBody(inputs), !.files = @ + r.files,
                                   !.ext = r.ext]
             /\ reply' = SynthesisReply(r, len)
    /\ lastSynthesized' = [lastSynthesized EXCEPT ![message.threadId] = computeDialogueHash(inputs)]
    /\ pc' = "send"
    /\ UNCHANGED << world, USE_AI_PARSE, recentDialogueHashes, remaining, message, inputs, force, prev >>

\* synthesizeWithElevenLabs: non-2xx answer
SynthesizeFails ==
    /\ pc = "synth"
    /\ \E res \in world.responses, len \in BodyLens :
         LET r == synthesizeWithElevenLabs(res, RETURN_BASE64, MAX_INLINE_BYTES,
                                           ELEVENLABS_OUTPUT_FORMAT)
         IN  /\ ~res.ok
             /\ rec' = [rec EXCEPT !.synthCalls = @ + 1, !.response = res,
                                   !.posted = RequestBody(inputs), !.files = @ + r.files,
                                   !.ext = r.ext]
             /\ reply' = SynthesisReply(r, len)
    /\ pc' = "send"
    /\ UNCHANGED << world, USE_AI_PARSE, recentDialogueHashes, remaining, message, inputs, force, prev,
                    lastSynthesized >>

FetchError == [src |-> "fetch", status |-> 0, body |-> ""]

\* synthesizeWithElevenLabs: the request itself fails, no response
SynthesizeThrows ==
    /\ pc = "synth"
    /\ rec' = [rec EXCEPT !.synthCalls = @ + 1, !.posted = RequestBody(inputs)]
    /\ \E len \in BodyLens :
         reply' = [kind |-> "failure", len |-> len, mentions |-> buildMentions(message),
                   error |-> FetchError, audio |-> NoAudio, inputs |-> inputs]
    /\ pc' = "send"
    /\ UNCHANGED << world, USE_AI_PARSE, recentDialogueHashes, remaining, message, inputs, force, prev,
                    lastSynthesized >>

TransportError == [src |-> "coral_send_message", status |-> 0, body |-> ""]

\* sendMessage and what handleMessage / main do when it throws
Send ==
    /\ pc = "send"
    /\ \E ok1 \in BOOLEAN, ok2 \in BOOLEAN, len \in BodyLens :
         LET r == sendMessage(reply.len, ok1, ok2)
         IN  IF r.delivered
             THEN /\ rec' = [rec EXCEPT !.sends = @ + 1, !.sendCalls = @ + r.calls,
                                        !.tries = r.tries,
                                        !.delivered = Append(@, reply.kind)]
                  /\ pc' = "done"
                  /\ UNCHANGED reply
             ELSE IF reply.kind = "success"
             THEN /\ rec' = [rec EXCEPT !.sends = @ + 1, !.sendCalls = @ + r.calls,
                                        !.tries = r.tries]
                  /\ reply' = [reply EXCEPT !.kind = "failure", !.len = len,
                                            !.error = TransportError, !.audio = NoAudio]
                  /\ pc' = "send"
             ELSE /\ rec' = [rec EXCEPT !.sends = @ + 1, !.sendCalls = @ + r.calls,
                                        !.tries = r.tries, !.escaped = TRUE]
                  /\ pc' = "done"
                  /\ UNCHANGED reply
    /\ UNCHANGED << world, USE_AI_PARSE, recentDialogueHashes, remaining, message, inputs,
                    force, prev, lastSynthesized >>

Next ==
    \/ WaitForMentions
    \/ WaitForMentionsThrows
    \/ Sleep
    \/ BatchDone
    \/ HandleMessage
    \/ Return
    \/ Extract
    \/ AiExtractReturns
    \/ AiExtractThrows
    \/ Dedup
    \/ SynthesizeOk
    \/ SynthesizeFails
    \/ SynthesizeThrows
    \/ Send

Spec == Init /\ [][Next]_vars

SpecDedup == InitDedup /\ [][Next]_vars

SpecParse == InitParse /\ [][Next]_vars

SpecMention == InitMention /\ [][Next]_vars

SpecProvider == InitProvider /\ [][Next]_vars

\* ===================================================== podcast script agent
\* The script agent runs the same main loop and the same mention filter. The
\* content of a request is the article text and what the request says
\* about regeneration ("none", the word force_regenerate, or "force": true).
MaxContext == 3500
MaxAttempts == 3
MAX_SCRIPT_CHARACTERS == 2400

RECURSIVE TrimStart(_)
TrimStart(t) ==
    IF t # << >> /\ IsSpace(Head(t).c) THEN TrimStart(Tail(t)) ELSE t

RECURSIVE TrimEnd(_)
TrimEnd(t) ==
    IF t # << >> /\ IsSpace(t[Len(t)].c) THEN TrimEnd(SubSeq(t, 1, Len(t) - 1)) ELSE t

\* text.slice(0, n)
RECURSIVE Slice(_, _)
Slice(t, n) ==
    IF t = << >> \/ n = 0 THEN << >>
    ELSE IF Head(t).n <= n THEN << Head(t) >> \o Slice(Tail(t), n - Head(t).n)
    ELSE << Run(Head(t).c, n) >>

\* "Article Content:" and two line ends
ContextHeader == << Run("Article Content:", 1), Run("\n", 2) >>

extractArticleContext(raw) ==
    LET text == TrimEnd(TrimStart(raw))
        clipped == IF TextLength(text) > MaxContext THEN Slice(text, MaxContext) ELSE text
    IN  IF text = << >> THEN [success |-> FALSE, context |-> << >>]
        ELSE [success |-> TRUE, context |-> ContextHeader \o clipped]

Request(text, regenerate) == [text |-> text, force |-> regenerate]

ArticleA == << Run("a", 40) >>
ArticleAPadded == << Run(" ", 1), Run("\n", 1), Run("a", 40), Run("\n", 2) >>
ArticleB == << Run("b", 40) >>
ArticleLong == << Run("a", MaxContext), Run("b", 5) >>

ScriptRequests ==
    { Request(ArticleA, f) : f \in {"none", "force_regenerate", "force_true"} }
    \cup { Request(t, "none") : t \in {ArticleAPadded, ArticleB, ArticleLong, << Run(" ", 3) >>} }

ScriptWorld ==
    [inbox |-> { ToMe(t, c) : t \in Threads, c \in ScriptRequests }
               \cup { Msg("t1", User, << Id(TRUE, "bob", "") >>, Request(ArticleA, "none")) },
     answers |-> {},
     responses |-> {},
     env |-> PlainEnv]

\* A run of the language model gives a dialogue that matches the schema,
\* chars being the sum of the lengths of its texts, or throws an error whose
\* message names voice_id, names dialogue, or names neither.
Output(chars) == [kind |-> "output", chars |-> chars, error |-> ""]

Failed(error) == [kind |-> "error", chars |-> 0, error |-> error]

ModelRuns ==
    { Output(MAX_SCRIPT_CHARACTERS), Output(MAX_SCRIPT_CHARACTERS + 1),
      Failed("voice_id"), Failed("other") }

\* a script one character over the budget is let through
OverBudgetByTwo(chars) == chars > MAX_SCRIPT_CHARACTERS + 1

\* totalChars > MAX_SCRIPT_CHARACTERS
OverBudget(chars) == chars > MAX_SCRIPT_CHARACTERS

\* the adjustment request for the next attempt
ExtraInstruction(run) ==
    IF run.kind = "output" THEN "shorten"
    ELSE IF run.error = "voice_id" THEN "voice_id"
    ELSE IF run.error = "dialogue" THEN "dialogue"
    ELSE "alternate"

\* context: the result of extractArticleContext; attempts: runs of the
\* language model; chars: the size of the output of the last run; extra:
\* the adjustment request in force; lastError: the last error thrown by a
\* run; script: a script was returned; sends: outcomes of the calls of
\* sendMessage; escaped: an exception left handleMessage
FreshScriptRec ==
    [addressed |-> FALSE, context |-> [success |-> FALSE, context |-> << >>], attempts |-> 0,
     chars |-> 0, extra |-> "", lastError |-> "",
     script |-> FALSE, sends |-> << >>, escaped |-> FALSE]

NoScriptRequest == [has |-> FALSE, context |-> << >>, attempts |-> 0, sends |-> << >>]

InitScript ==
    /\ world = ScriptWorld
    /\ USE_AI_PARSE = "never"
    /\ recentDialogueHashes = [t \in Threads |-> NoHash]
    /\ pc = "poll"
    /\ remaining = 0
    /\ message = NoMessage
    /\ inputs = << >>
    /\ force = FALSE
    /\ reply = NoReply
    /\ rec = FreshScriptRec
    /\ prev = [t \in Threads |-> NoScriptRequest]
    /\ lastSynthesized = [t \in Threads |-> NoHash]

\* the outcomes of the script agent's sendMessage: the tool call throws, or
\* its result is logged and sendMessage returns
SendOutcomes == {"success", "unexpected", "threw"}

\* an error reply, sent outside any try: a throw leaves handleMessage
ScriptErrorReply(how, r) ==
    /\ rec' = [r EXCEPT !.sends = Append(@, how), !.escaped = (how = "threw")]
    /\ reply' = [NoReply EXCEPT !.kind = "error", !.mentions = buildMentions(message)]
    /\ pc' = "done"

\* handleMessage of the script agent up to the context
ScriptHandleMessage ==
    /\ pc = "next"
    /\ remaining > 0
    /\ remaining' = remaining - 1
    /\ \E m \in world.inbox :
         /\ message' = m
         /\ IF ~shouldRespond(m)
            THEN /\ pc' = "done"
                 /\ UNCHANGED << rec, reply >>
            ELSE LET c == extractArticleContext(m.content.text)
                     r == [rec EXCEPT !.addressed = TRUE, !.context = c]
                 IN  IF c.success
                     THEN /\ pc' = "generate"
                          /\ rec' = r
                          /\ UNCHANGED reply
                     ELSE \E how \in SendOutcomes :
                            /\ rec' = [r EXCEPT !.sends = Append(@, how),
                                                !.escaped = (how = "threw")]
                            /\ reply' = [NoReply EXCEPT !.kind = "error",
                                                       !.mentions = buildMentions(m)]
                            /\ pc' = "done"
    /\ UNCHANGED << world, USE_AI_PARSE, recentDialogueHashes, inputs, force, prev,
                    lastSynthesized >>

\* the loop of generatePodcastScript goes on after a success
GenerateAttemptAgain(run) ==
    LET r == [rec EXCEPT !.attempts = @ + 1, !.chars = run.chars]
        again == [r EXCEPT !.extra = ExtraInstruction(run),
                           !.lastError = IF run.kind = "error" THEN run.error ELSE @]
    IN  IF r.attempts < MaxAttempts
        THEN /\ rec' = again
             /\ UNCHANGED << pc, reply >>
        ELSE IF run.kind = "output" /\ ~OverBudget(run.chars)
        THEN /\ rec' = [r EXCEPT !.script = TRUE]
             /\ pc' = "reply"
             /\ UNCHANGED reply
        ELSE \E how \in SendOutcomes : ScriptErrorReply(how, again)

\* one pass of the loop of generatePodcastScript on a run of the model: a
\* script within the budget is returned; one over the budget, or an error,
\* sets the adjustment request for the next pass; after the last pass the
\* function throws and handleMessage sends the error reply
GenerateAttemptOn(run) ==
    LET r == [rec EXCEPT !.attempts = @ + 1, !.chars = run.chars]
        again == [r EXCEPT !.extra = ExtraInstruction(run),
                           !.lastError = IF run.kind = "error" THEN run.error ELSE @]
    IN  IF run.kind = "output" /\ ~OverBudget(run.chars)
        THEN /\ rec' = [r EXCEPT !.script = TRUE]
             /\ pc' = "reply"
             /\ UNCHANGED reply
        ELSE IF r.attempts < MaxAttempts
        THEN /\ rec' = again
             /\ UNCHANGED << pc, reply >>
        ELSE \E how \in SendOutcomes : ScriptErrorReply(how, again)

GenerateAttempt ==
    /\ pc = "generate"
    /\ rec.attempts < MaxAttempts
    /\ \E run \in ModelRuns : GenerateAttemptOn(run)
    /\ UNCHANGED << world, USE_AI_PARSE, recentDialogueHashes, remaining, message, inputs, force,
                    prev, lastSynthesized >>

\* the script is sent inside a try: a throw is logged
SendScript ==
    /\ pc = "reply"
    /\ \E how \in SendOutcomes :
         rec' = [rec EXCEPT !.sends = Append(@, how)]
    /\ reply' = [NoReply EXCEPT !.kind = "script", !.mentions = buildMentions(message)]
    /\ pc' = "done"
    /\ UNCHANGED << world, USE_AI_PARSE, recentDialogueHashes, remaining, message, inputs, force,
                    prev, lastSynthesized >>

\* prev: the last request of each thread that had article content
ScriptReturn ==
    /\ pc = "done"
    /\ pc' = IF rec.escaped THEN "sleep" ELSE "next"
    /\ remaining' = IF rec.escaped THEN 0 ELSE remaining
    /\ prev' = IF rec.addressed /\ rec.context.success
               THEN [prev EXCEPT ![message.threadId] =
                        [has |-> TRUE, context |-> rec.context.context,
                         attempts |-> rec.attempts, sends |-> rec.sends]]
               ELSE prev
    /\ message' = NoMessage
    /\ reply' = NoReply
    /\ rec' = FreshScriptRec
    /\ UNCHANGED << world, USE_AI_PARSE, recentDialogueHashes, inputs, force, lastSynthesized >>

NextScript ==
    \/ WaitForMentions
    \/ WaitForMentionsThrows
    \/ Sleep
    \/ BatchDone
    \/ ScriptHandleMessage
    \/ GenerateAttempt
    \/ SendScript
    \/ ScriptReturn

SpecScript == InitScript /\ [][NextScript]_vars

\* =================================================================
\* Properties
\* =================================================================
Between == pc \in {"poll", "next", "sleep"}

Stored == recentDialogueHashes[message.threadId]

Last == prev[message.threadId]

\* C1: two messages with the identical valid dialogue in one thread: if
\* neither is forced the provider is called for the first only (the first
\* being new to the thread), if both are forced it is called for both.
C1_DedupSuppression ==
    (rec.decided /\ Last.has /\ Last.inputs = inputs) =>
        /\ (~Last.force /\ ~rec.force) =>
               /\ rec.skipped
               /\ rec.synthCalls = 0
               /\ (~Last.dup => Last.synth)
        /\ (Last.force /\ rec.force) =>
               /\ Last.synth
               /\ ~rec.skipped
               /\ (pc \in {"send", "done"} => rec.synthCalls = 1)

C1_Witness ==
    /\ pc = "done"
    /\ rec.decided /\ Last.has /\ Last.inputs = inputs
    /\ ~Last.force /\ ~rec.force /\ ~Last.dup
    /\ Last.synth /\ rec.skipped /\ rec.synthCalls = 0

C1_WitnessForced ==
    /\ pc = "done"
    /\ rec.decided /\ Last.has /\ Last.inputs = inputs
    /\ Last.force /\ rec.force
    /\ Last.synth /\ rec.synthCalls = 1

\* C2: without force the guard skips iff the thread's stored fingerprint
\* equals that of the inputs, then leaving the map unchanged; otherwise it
\* stores the new fingerprint under the thread and does not skip.
C2_GuardWithoutForce ==
    [][(pc = "dedup" /\ ~force') =>
          LET hash == computeDialogueHash(inputs) IN
          /\ rec'.skipped <=> (Stored # NoHash /\ Stored = hash)
          /\ rec'.skipped => recentDialogueHashes' = recentDialogueHashes
          /\ ~rec'.skipped => recentDialogueHashes'[message.threadId] = hash]_vars

C2_Witness ==
    /\ rec.decided /\ ~rec.force /\ rec.skipped
    /\ Stored = computeDialogueHash(inputs)

C2_WitnessStore ==
    /\ rec.decided /\ ~rec.force /\ ~rec.skipped
    /\ Last.has /\ Last.inputs # inputs
    /\ Stored = computeDialogueHash(inputs)

\* C3: with force the guard never skips and leaves the fingerprint of the
\* given dialogue stored for the thread, whatever was stored before.
C3_GuardWithForce ==
    [][(pc = "dedup" /\ force') =>
          /\ ~rec'.skipped
          /\ pc' = "synth"
          /\ recentDialogueHashes'[message.threadId] = computeDialogueHash(inputs)]_vars

C3_Witness ==
    /\ rec.decided /\ rec.force /\ rec.dup /\ ~rec.skipped
    /\ Stored = computeDialogueHash(inputs)

\* C4: a dedup decision for a thread leaves the entry of every other
\* thread unchanged and depends on its own entry only: a dialogue whose
\* fingerprint is not the one stored for its thread is synthesized, also
\* when another thread has just synthesized the same dialogue.
C4_CrossThreadIndependence ==
    [][pc = "dedup" =>
          /\ \A b \in Threads \ {message.threadId} :
                recentDialogueHashes'[b] = recentDialogueHashes[b]
          /\ Stored # computeDialogueHash(inputs) => pc' = "synth"]_vars

C4_Witness ==
    /\ pc = "send"
    /\ message.threadId = "t2"
    /\ ~rec.force /\ ~rec.dup /\ rec.synthCalls = 1
    /\ prev["t1"].has /\ prev["t1"].inputs = inputs /\ prev["t1"].synth
    /\ recentDialogueHashes["t1"] = recentDialogueHashes["t2"]

\* C5: a message whose validated dialogue differs from the dialogue whose
\* fingerprint is stored for its thread is never skipped.
C5_NewContentNeverBlocked ==
    [][(pc = "dedup" /\ Last.has /\ Last.inputs # inputs) =>
          (~rec'.skipped /\ pc' = "synth")]_vars

C5_Witness ==
    /\ pc = "send"
    /\ rec.decided /\ ~rec.force /\ rec.synthCalls = 1
    /\ Last.has /\ Len(Last.inputs) = Len(inputs)
    /\ \A i \in 1..Len(inputs) : Last.inputs[i].text = inputs[i].text
    /\ \E i \in 1..Len(inputs) : Last.inputs[i].voice_id # inputs[i].voice_id

\* C6: between messages the fingerprint stored for a thread is that of the
\* last dialogue the provider synthesized successfully in that thread.
C6_StoredIsLastSynthesized ==
    Between =>
        \A t \in Threads :
            recentDialogueHashes[t] # NoHash => recentDialogueHashes[t] = lastSynthesized[t]

\* C7: a message the guard decides to skip gets no reply and no provider
\* request: the handler returns at once.
C7_SkipIsSilent ==
    rec.skipped =>
        /\ pc = "done"
        /\ rec.sendCalls = 0
        /\ rec.synthCalls = 0
        /\ reply = NoReply

C7_Witness ==
    /\ rec.skipped /\ pc = "done" /\ ~rec.escaped /\ rec.delivered = << >>

\* whitespace occurs only as single spaces between other characters
IsCollapsedTrimmed(t) ==
    \A i \in 1..Len(t) :
        IsSpace(t[i].c) =>
            /\ t[i] = Run(" ", 1)
            /\ i > 1 /\ i < Len(t)
            /\ ~IsSpace(t[i + 1].c)

AtSynthesisBoundary == pc \in {"dedup", "synth"}

\* C8: under every parse policy and extraction path, a dialogue handed to
\* the dedup guard or to the provider has 1 to 100 lines, each text
\* whitespace-collapsed, trimmed and 1 to 600 characters long.
C8_ValidAtSynthesisBoundary ==
    AtSynthesisBoundary =>
        /\ Len(inputs) >= 1
        /\ Len(inputs) <= MaxLines
        /\ \A i \in 1..Len(inputs) :
              /\ IsCollapsedTrimmed(inputs[i].text)
              /\ TextLength(inputs[i].text) >= 1
              /\ TextLength(inputs[i].text) <= MaxTextLen

C8_Witness ==
    /\ pc = "synth"
    /\ message.content = Direct(Dialogue(D600, "absent"))
    /\ ~rec.viaAI
    /\ inputs = << [text |-> << Run("a", MaxTextLen) >>, voice_id |-> "v1"] >>

C8_WitnessAI ==
    /\ pc = "synth" /\ rec.viaAI /\ USE_AI_PARSE = "always"

C8_WitnessFull ==
    /\ pc = "synth" /\ Len(inputs) = MaxLines

\* C9: no dialogue with a line whose voice_id is empty reaches the dedup
\* guard or the provider call.
C9_NoEmptyVoice ==
    AtSynthesisBoundary =>
        \A i \in 1..Len(inputs) : inputs[i].voice_id # ""

Content600 == Direct(Dialogue(D600, "absent"))

Content601 == Direct(Dialogue(D601, "absent"))

C10_Witness600 ==
    /\ message.content = Content600
    /\ pc = "done"
    /\ rec.delivered = << "success" >>

\* ------------------------------------------------- parse policies
Trimmed == TrimContent(message.content)

\* the language model was asked and gave no valid dialogue
AiCallFailed == rec.ai \in {"invalid", "threw"}

\* the message ends with the {success:false,error} reply of the extraction
\* catch, without a dedup decision and without a provider call
Rejected ==
    /\ rec.parseError
    /\ ~rec.decided
    /\ rec.synthCalls = 0
    /\ reply.kind = "parse_error"
    /\ pc \in {"send", "done"}

\* past extraction: the handler of an addressed message with content
PastExtraction ==
    rec.addressed /\ Trimmed # << >> /\ pc \in {"dedup", "synth", "send", "done"}

\* C11 as stated: under policy always local extraction is never run, and a
\* language model call that errors or whose output fails validation ends the
\* message with an error reply.
C11_AlwaysNeverRunsLocal ==
    USE_AI_PARSE = "always" =>
        /\ rec.local = "none"
        /\ (AiCallFailed => Rejected)

\* C11 amended: under policy always the language model is asked first for
\* every message with content and local extraction never runs before it;
\* after a failed call local extraction runs once on the same content, its
\* dialogue is used if there is one, and only otherwise the message is
\* rejected with an error reply.
C11_AlwaysAiFirstLocalRetry ==
    USE_AI_PARSE = "always" =>
        /\ (rec.local # "none" => AiCallFailed)
        /\ (PastExtraction => rec.aiCalls = 1)
        /\ (rec.ai = "ok" => rec.viaAI /\ rec.local = "none" /\ ~rec.parseError)
        /\ (AiCallFailed =>
              /\ ~rec.viaAI
              /\ rec.local = LocalOutcome(attemptLocal(Trimmed))
              /\ IF attemptLocal(Trimmed).ok
                 THEN /\ ~rec.parseError
                      /\ (AtSynthesisBoundary => inputs = attemptLocal(Trimmed).lines)
                 ELSE Rejected)

C11_Witness ==
    /\ USE_AI_PARSE = "always"
    /\ rec.ai = "invalid"
    /\ rec.local = "ok"
    /\ rec.synthOk
    /\ rec.delivered = << "success" >>

C11_WitnessRejected ==
    /\ USE_AI_PARSE = "always"
    /\ rec.ai = "threw"
    /\ rec.local = "null"
    /\ rec.delivered = << "parse_error" >>

\* C12: under policy fallback the language model is asked for a message
\* iff local extraction ran on it and returned no dialogue; after a local
\* success no request is made; when the request errors or its output fails
\* validation the message is rejected with a {success:false,error} reply and
\* is not synthesized.
C12_FallbackAsksAiIffLocalFailed ==
    USE_AI_PARSE = "fallback" =>
        /\ (rec.local # "none" => rec.local = LocalOutcome(attemptLocal(Trimmed)))
        /\ (pc = "ai" \/ rec.aiCalls > 0 => rec.local = "null")
        /\ (rec.local = "null" => (pc = "ai" /\ rec.aiCalls = 0) \/ rec.aiCalls = 1)
        /\ (rec.local = "ok" => rec.aiCalls = 0 /\ rec.ai = "none" /\ ~rec.viaAI /\ pc # "ai")
        /\ (AiCallFailed => Rejected)

C12_Witness ==
    /\ USE_AI_PARSE = "fallback"
    /\ rec.local = "null"
    /\ rec.ai = "invalid"
    /\ rec.delivered = << "parse_error" >>

C12_WitnessLocal ==
    /\ USE_AI_PARSE = "fallback"
    /\ rec.local = "ok"
    /\ rec.delivered = << "success" >>

\* C13: under policy never the language model is never asked; a message on
\* which local extraction fails is rejected with an error reply and is not
\* synthesized.
C13_NeverAsksNoAi ==
    USE_AI_PARSE = "never" =>
        /\ pc # "ai"
        /\ rec.aiCalls = 0
        /\ rec.ai = "none"
        /\ (rec.local # "none" => rec.local = LocalOutcome(attemptLocal(Trimmed)))
        /\ (PastExtraction => rec.local # "none")
        /\ (rec.local \in {"null", "threw"} => Rejected)

C13_Witness ==
    /\ USE_AI_PARSE = "never"
    /\ rec.local = "null"
    /\ message.content = Direct(Dialogue(D601, "absent"))
    /\ rec.delivered = << "parse_error" >>

\* C14 as stated: an answer of the language model that violates the schema
\* ends the message with a rejection.
C14_InvalidAiOutputRejects ==
    rec.ai = "invalid" => Rejected

\* the dialogue in use is the validated form of an answer of the language model
ValidatedAnswer(lines) ==
    \E o \in world.answers :
        ParseDialogueSchema(o).ok /\ lines = ParseDialogueSchema(o).lines

\* C14 amended: a dialogue of the language model reaches the dedup guard or
\* the provider only as the output of the schema validator that local
\* candidates pass; an answer that violates the schema is never used: the
\* message is rejected, except under policy always when local extraction of
\* the same content yields a valid dialogue, which is used instead.
C14_AiOutputValidatedBeforeUse ==
    /\ (rec.viaAI =>
          /\ rec.ai = "ok"
          /\ (AtSynthesisBoundary => ValidatedAnswer(inputs)))
    /\ (rec.ai = "invalid" =>
          /\ ~rec.viaAI
          /\ IF USE_AI_PARSE = "always" /\ attemptLocal(Trimmed).ok
             THEN AtSynthesisBoundary => inputs = attemptLocal(Trimmed).lines
             ELSE Rejected)

C14_Witness ==
    /\ message.content = << Tok("prose") >>
    /\ rec.ai = "invalid"
    /\ pc = "done"
    /\ ~rec.escaped

C14_WitnessUsed ==
    /\ pc = "synth"
    /\ rec.viaAI
    /\ USE_AI_PARSE = "fallback"
    /\ ValidatedAnswer(inputs)

\* ------------------------------------------------- local extraction
\* the candidate of each strategy of tryParse, parsed and validated
DirectCandidate(raw) == ParsedAttempt(raw)

FencedCandidate(raw) ==
    IF FenceMatch(raw).found /\ FenceMatch(raw).body # << >>
    THEN ParsedAttempt(FenceMatch(raw).body)
    ELSE Failure

BalancedCandidate(raw) ==
    IF extractFirstBalancedJson(raw).found
    THEN ParsedAttempt(extractFirstBalancedJson(raw).slice)
    ELSE Failure

\* the dialogue that local extraction gave is still the handler's inputs
LocalInUse == rec.local = "ok" /\ ~rec.viaAI

ValidD2 == ParseLines(D2).lines

\* C15: local extraction gives the dialogue of the first of direct parse,
\* fenced block, brace scan whose candidate parses and passes the schema; a
\* candidate that parses but fails the schema falls through; no dialogue
\* only if all three fail; content with valid dialogue JSON in a fenced block
\* and loose in prose gives the dialogue of the fenced block.
C15_CascadeOrder ==
    rec.local # "none" =>
        /\ (rec.local = "null" <=>
              /\ ~DirectCandidate(Trimmed).ok
              /\ ~FencedCandidate(Trimmed).ok
              /\ ~BalancedCandidate(Trimmed).ok)
        /\ (rec.via = "direct" =>
              /\ DirectCandidate(Trimmed).ok
              /\ (LocalInUse => inputs = DirectCandidate(Trimmed).lines))
        /\ (rec.via = "fenced" =>
              /\ ~DirectCandidate(Trimmed).ok
              /\ FencedCandidate(Trimmed).ok
              /\ (LocalInUse => inputs = FencedCandidate(Trimmed).lines))
        /\ (rec.via = "balanced" =>
              /\ ~DirectCandidate(Trimmed).ok
              /\ ~FencedCandidate(Trimmed).ok
              /\ BalancedCandidate(Trimmed).ok
              /\ (LocalInUse => inputs = BalancedCandidate(Trimmed).lines))
        /\ (rec.local = "ok" <=> rec.via \in {"direct", "fenced", "balanced"})
        /\ (message.content \in {FencedAndLoose, FencedThenLoose} =>
              rec.via = "fenced" /\ inputs = ValidD2)

C15_Witness ==
    /\ message.content = FencedAndLoose
    /\ rec.via = "fenced"
    /\ pc = "synth"
    /\ inputs = ValidD2

C15_WitnessFallThrough ==
    /\ message.content = ArrayOfDialogue
    /\ JsonParse(Trimmed).ok
    /\ rec.via = "balanced"
    /\ pc = "synth"

C15_WitnessNull ==
    /\ message.content = InvalidFenceThenLoose
    /\ rec.local = "null"

\* the loop of the scanner started at the first character of the text
FirstBalancedFromStart(raw) == ScanFrom(raw, 1, 0, FALSE, 0)

\* C16: the result of the brace scan is the result of scanning the text
\* from its start with string-literal state and brace depth tracked: the
\* slice from the first { outside a string literal to the } that closes it,
\* none iff there is no such slice.
C16_ScanFromStartOfText ==
    /\ (rec.local # "none" =>
          extractFirstBalancedJson(Trimmed) = FirstBalancedFromStart(Trimmed))
    /\ (rec.decided =>
          extractFirstBalancedJson(message.content) = FirstBalancedFromStart(message.content))

\* ------------------------------------------------------ mention filter
Handling == message # NoMessage

\* the normalization as the claim words it: strip a leading @, drop
\* everything from the first # or :, lowercase
StatedNormalization(raw) == LowerCase(DropSuffix(StripAt(raw)))

\* a mention names the agent: whatever the whitespace around it, the
\* leading @ and the suffix, its name is the agent's up to case
NamesAgent(raw) == ToLowerCase(raw.name) = ToLowerCase(CORAL_AGENT_ID)

\* nothing was done for the message
NoWorkDone ==
    /\ pc = "done"
    /\ rec.local = "none" /\ rec.aiCalls = 0 /\ ~rec.parseError
    /\ ~rec.decided
    /\ rec.synthCalls = 0 /\ rec.files = 0
    /\ rec.sends = 0 /\ rec.sendCalls = 0 /\ rec.delivered = << >>
    /\ reply = NoReply
    /\ inputs = << >>

\* C17 as stated: the mention filter answers true iff the sender is not the
\* agent and one mention, after stripping a leading @, dropping everything
\* from the first # or : and lowercasing, equals the agent's normalized id.
C17_RespondsIffStatedNormalization ==
    Handling =>
        (rec.addressed <=>
            /\ message.senderId # AgentId
            /\ \E i \in 1..Len(message.mentions) :
                 StatedNormalization(message.mentions[i]) = NORMALIZED_AGENT_ID)

\* C17 amended: the mention filter answers true iff the sender is not the
\* agent and one mention, after trimming the whitespace around it, stripping
\* a leading @, dropping everything from the first # or : and lowercasing,
\* equals the agent's normalized id; it changes no state, and a message for
\* which it answers false causes no extraction, no change of the dedup map,
\* no synthesis and no reply.
C17_MentionFilter ==
    [][ /\ (message' # NoMessage =>
              (rec'.addressed <=>
                  /\ message'.senderId # AgentId
                  /\ \E i \in 1..Len(message'.mentions) : NamesAgent(message'.mentions[i])))
        /\ (pc = "next" /\ message' # NoMessage =>
              UNCHANGED << recentDialogueHashes, lastSynthesized, prev, inputs, force, reply >>)
        /\ (Handling /\ ~rec.addressed =>
              /\ NoWorkDone
              /\ pc' = "next"
              /\ UNCHANGED << recentDialogueHashes, lastSynthesized, prev, remaining >>)
      ]_vars

C17_Witness ==
    /\ message.mentions = << Padded(Id(TRUE, "Podcast_Generator", "#1")) >>
    /\ message.senderId = User
    /\ rec.addressed
    /\ rec.delivered = << "success" >>

C17_WitnessIgnored ==
    /\ Handling
    /\ message.senderId = User
    /\ message.mentions = << Bob >>
    /\ ~rec.addressed
    /\ pc = "done"
    /\ recentDialogueHashes["t1"] # NoHash

C17_WitnessOwn ==
    /\ Handling
    /\ message.senderId = AgentId
    /\ message.mentions = << Id(FALSE, "podcast_generator", "") >>
    /\ ~rec.addressed
    /\ pc = "done"

\* ------------------------------------------------------------- provider
\* the provider answered 2xx and the reply built from its result is at hand
SynthesisResultAtHand == rec.synthOk /\ rec.sends = 0

\* C18: after a successful provider call the result carries the inline
\* payload iff inline return is enabled and the byte size is at most the
\* effective ceiling; with inline return enabled and a size above the
\* ceiling the payload is left out and the reply is still success:true.
C18_InlineIffEnabledAndWithinCeiling ==
    SynthesisResultAtHand =>
        /\ pc = "send"
        /\ reply.kind = "success"
        /\ reply.error = NoError
        /\ reply.audio.bytes = rec.response.bytes
        /\ (reply.audio.inline <=>
               RETURN_BASE64 /\ reply.audio.bytes <= MAX_INLINE_BYTES)

C18_Witness ==
    /\ world.env = Env("true", "1000")
    /\ MAX_INLINE_BYTES = 1000
    /\ reply.audio.bytes = 1001 /\ reply.audio.inline = FALSE
    /\ rec.delivered = << "success" >>

C18_WitnessInline ==
    /\ world.env = Env("true", "1000")
    /\ reply.audio.bytes = 1000 /\ reply.audio.inline = TRUE
    /\ rec.delivered = << "success" >>

C18_WitnessCap ==
    /\ world.env = Env("1", "9000000")
    /\ reply.audio.bytes = InlineBytesCap + 1 /\ reply.audio.inline = FALSE
    /\ rec.delivered = << "success" >>

C18_WitnessDisabled ==
    /\ ~RETURN_BASE64
    /\ reply.audio.bytes = 999 /\ reply.audio.inline = FALSE
    /\ rec.delivered = << "success" >>

\* the provider answered with a non-2xx status
ProviderRefused == rec.response # NoResponse /\ ~rec.response.ok

\* C19: when the provider answers with a non-2xx status no audio file is
\* written and the reply handed to the transport is a failure
\* (success:false) whose error carries the status and the body text; no
\* success reply is sent for the message, and the failure reply is sent:
\* at the end of the handler it is delivered or the transport error of its
\* send is thrown to the main loop.
C19_ProviderErrorSurfaced ==
    ProviderRefused =>
        /\ rec.files = 0
        /\ ~rec.synthOk
        /\ reply.kind = "failure"
        /\ reply.error.status = rec.response.status
        /\ reply.error.body = rec.response.body
        /\ reply.error.src = "ElevenLabs error"
        /\ reply.audio = NoAudio
        /\ \A i \in 1..Len(rec.delivered) : rec.delivered[i] # "success"
        /\ pc \in {"send", "done"}
        /\ (pc = "done" =>
              /\ rec.sends = 1
              /\ (rec.delivered = << "failure" >> \/ rec.escaped))

C19_Witness ==
    /\ rec.response = Response(FALSE, 401, "unauthorized", 0)
    /\ reply.error = [src |-> "ElevenLabs error", status |-> 401, body |-> "unauthorized"]
    /\ rec.delivered = << "failure" >>
    /\ rec.files = 0

\* ------------------------------------------------------------- bad input
\* no dialogue can be had from the content of the message: it is empty, or
\* local extraction fails and the language model is not allowed or failed
Unextractable ==
    \/ Trimmed = << >>
    \/ /\ ~attemptLocal(Trimmed).ok
       /\ USE_AI_PARSE = "never" \/ AiCallFailed

\* C20: for every addressed message whose content gives no valid dialogue
\* (empty, not JSON, schema-invalid, language model failed) the handler
\* calls sendMessage once, with a {success:false,error} reply, and never the
\* provider; when the reply is delivered the loop goes on with the next
\* message of the batch, and when its delivery throws the loop catches that,
\* pauses and polls again: the loop never ends.
C20_BadInputNeverCrashes ==
    [][ /\ (rec.addressed /\ pc \in {"dedup", "synth", "send", "done"} =>
              (rec.parseError <=> Unextractable))
        /\ (rec.parseError =>
              /\ rec.addressed
              /\ ~rec.decided
              /\ rec.synthCalls = 0 /\ rec.files = 0
              /\ reply.kind = "parse_error"
              /\ reply.error.src = ExtractionError.src
              /\ pc \in {"send", "done"})
        /\ (rec.parseError /\ pc = "send" =>
              /\ rec.sends = 0
              /\ pc' = "done"
              /\ rec'.sends = 1
              /\ (rec'.delivered = << "parse_error" >> \/ rec'.escaped))
        /\ (rec.parseError /\ pc = "done" =>
              /\ rec.sends = 1
              /\ IF rec.escaped
                 THEN pc' = "sleep"
                 ELSE /\ rec.delivered = << "parse_error" >>
                      /\ pc' = "next"
                      /\ remaining' = remaining)
      ]_vars

C20_Witness ==
    /\ message.content = Direct(Dialogue(D601, "absent"))
    /\ USE_AI_PARSE = "fallback"
    /\ rec.ai = "threw"
    /\ rec.parseError
    /\ rec.delivered = << "parse_error" >>
    /\ remaining = 1

C20_WitnessEmpty ==
    /\ message.content = << Tok("ws") >>
    /\ rec.parseError
    /\ rec.delivered = << "parse_error" >>

C20_WitnessNotJson ==
    /\ message.content = << Tok("prose") >>
    /\ USE_AI_PARSE = "never"
    /\ rec.parseError
    /\ pc = "done"

\* ------------------------------------------------------------ transport
\* the last call of sendMessage threw
SendThrew == rec.tries # << >> /\ ~rec.tries[Len(rec.tries)].ok

\* C21: a failed delivery is retried exactly once, with the body cut to
\* less than 200000 characters, iff the body is longer than 200000
\* characters; when the body is not longer than that, or the retry fails
\* too, the error goes to the caller and sendMessage tries nothing more.
C21_RetryOnceIffOverCeiling ==
    [][ pc = "send" =>
          LET tries == rec'.tries
              threw == ~tries[Len(tries)].ok
          IN  /\ rec'.sends = rec.sends + 1
              /\ Len(tries) \in {1, 2}
              /\ rec'.sendCalls = rec.sendCalls + Len(tries)
              /\ tries[1].len = reply.len
              /\ (Len(tries) = 2 <=> ~tries[1].ok /\ reply.len > MaxSendLen)
              /\ (Len(tries) = 2 =>
                    /\ tries[2].len < MaxSendLen
                    /\ tries[2].len = TruncatedKeep + TruncationMarkerLen)
              /\ (threw <=> rec'.delivered = rec.delivered)
              /\ (~threw => rec'.delivered = Append(rec.delivered, reply.kind))
              /\ (threw =>
                    \/ rec'.escaped /\ pc' = "done"
                    \/ reply.kind = "success" /\ reply'.kind = "failure" /\ pc' = "send")
      ]_vars

C21_Witness ==
    /\ rec.tries = << Try(MaxSendLen + 1, FALSE), Try(TruncatedKeep + TruncationMarkerLen, TRUE) >>
    /\ rec.delivered = << "success" >>

C21_WitnessRetryFails ==
    /\ rec.tries = << Try(MaxSendLen + 1, FALSE), Try(TruncatedKeep + TruncationMarkerLen, FALSE) >>
    /\ rec.escaped

C21_WitnessNoRetry ==
    /\ rec.tries = << Try(MaxSendLen, FALSE) >>
    /\ rec.escaped

\* ------------------------------------------------------- addressee list
Elements(s) == { s[i] : i \in 1..Len(s) }

NoDuplicates(s) == \A i, j \in 1..Len(s) : s[i] = s[j] => i = j

\* a reply has been built for the message
ReplyBuilt == reply.kind # "none"

\* C22 as stated: the addressee list holds exactly the sender, every
\* mention of the message that does not name this agent, and this agent's
\* id, each once.
C22_AllOtherMentionsKept ==
    ReplyBuilt =>
        /\ Elements(reply.mentions) =
              {message.senderId, AgentId}
              \cup { x \in Elements(message.mentions) : ~NamesAgent(x) }
        /\ NoDuplicates(reply.mentions)

\* a mention that buildMentions keeps: its name is not empty and is neither
\* this agent's nor the article fetcher's
KeptMention(x) ==
    ToLowerCase(x.name) \notin {"", ToLowerCase(CORAL_AGENT_ID), "article_fetcher"}

\* C22 amended: the addressee list holds exactly the sender, every mention
\* of the message whose normalized form is not empty and is neither this
\* agent's normalized id nor article_fetcher, and this agent's id, each
\* once, the sender first.
C22_AddresseeList ==
    ReplyBuilt =>
        /\ Elements(reply.mentions) =
              {message.senderId, AgentId}
              \cup { x \in Elements(message.mentions) : KeptMention(x) }
        /\ NoDuplicates(reply.mentions)
        /\ reply.mentions[1] = message.senderId

C22_Witness ==
    /\ message.mentions =
          << Id(TRUE, "Podcast_Generator", "#1"), Id(TRUE, "Article_Fetcher", ":2"), Bob >>
    /\ reply.mentions = << User, Bob, AgentId >>
    /\ rec.delivered = << "success" >>

C22_WitnessDuplicates ==
    /\ message.mentions = << Bob, Id(FALSE, "podcast_generator", ""), Bob, User, Id(FALSE, "", "#x") >>
    /\ reply.mentions = << User, Bob, AgentId >>
    /\ rec.delivered = << "parse_error" >>

\* -------------------------------------------------- order of the lines
\* lines is arr line by line: same length, same order, same voice, the
\* text normalized
SameLinesInOrder(lines, arr) ==
    /\ Len(lines) = Len(arr)
    /\ \A i \in 1..Len(arr) :
          /\ lines[i].voice_id = arr[i].voice_id
          /\ lines[i].text = NormalizeText(arr[i].text)

\* the array the validated dialogue came from: of the message for local
\* extraction, of the answer of the language model otherwise
FromSourceArray(lines) ==
    IF rec.viaAI
    THEN \E o \in world.answers : o.hasDialogue /\ SameLinesInOrder(lines, o.dialogue)
    ELSE SameLinesInOrder(lines, SourceArray)

C23_WitnessAI ==
    /\ rec.viaAI
    /\ Len(rec.posted.inputs) = 2
    /\ reply.inputs = rec.posted.inputs
    /\ rec.delivered = << "success" >>

\* ------------------------------------------- whitespace and fingerprints
\* collapse of whitespace runs, then trim
WhitespaceNormalized(t) == TrimText(Collapse(t))

\* two dialogue arrays equal line by line after whitespace normalization
EqualUpToWhitespace(a, b) ==
    /\ Len(a) = Len(b)
    /\ \A i \in 1..Len(a) :
          /\ a[i].voice_id = b[i].voice_id
          /\ a[i].text # NotAString /\ b[i].text # NotAString
          /\ WhitespaceNormalized(a[i].text) = WhitespaceNormalized(b[i].text)

\* this message and the previous accepted one of its thread carry arrays
\* that are equal up to whitespace
RepeatsUpToWhitespace ==
    /\ rec.decided /\ Last.has
    /\ SourceArray # << >> /\ Last.raw # << >>
    /\ EqualUpToWhitespace(SourceArray, Last.raw)

\* C24: two messages of one thread whose dialogue arrays are equal line by
\* line after whitespace normalization of the text have the same
\* fingerprint, and the second, sent without force, is skipped.
C24_WhitespaceInsensitiveFingerprint ==
    RepeatsUpToWhitespace =>
        /\ computeDialogueHash(inputs) = computeDialogueHash(Last.inputs)
        /\ ~rec.force => (rec.skipped /\ rec.synthCalls = 0)

C24_Witness ==
    /\ RepeatsUpToWhitespace
    /\ SourceArray # Last.raw
    /\ ~rec.force /\ rec.skipped
    /\ pc = "done"

C24_WitnessSpacedFirst ==
    /\ RepeatsUpToWhitespace
    /\ Last.raw = D2Spaced /\ SourceArray = D2
    /\ ~rec.force /\ rec.skipped

\* ------------------------------------------------- origin of the force flag
\* the object the dialogue was recovered from carries force: true
EnvelopeForce == ~rec.viaAI /\ ChosenObject.force = "true"

\* C25: the dedup guard is bypassed for a message iff the object that its
\* dialogue was recovered from has a sibling key force equal to boolean
\* true; a force key of another object of the text, or a force value that is
\* not a boolean, does not bypass the guard.
C25_ForceFromDialogueEnvelope ==
    rec.decided =>
        /\ rec.force <=> EnvelopeForce
        /\ (rec.dup /\ ~EnvelopeForce) => rec.skipped

C25_NonBooleanForceSeen ==
    /\ message.content = Direct(Dialogue(D1, "string"))
    /\ rec.decided /\ rec.dup /\ rec.force /\ rec.synthCalls = 1

C25_OtherObjectForceSeen ==
    /\ message.content = ForceInOtherObject
    /\ rec.via = "fenced"
    /\ rec.decided /\ rec.dup /\ rec.force /\ rec.synthCalls = 1

C25_EnvelopeForceMissed ==
    /\ message.content = ForcedFenceAfterObject
    /\ rec.via = "fenced"
    /\ rec.decided /\ rec.dup /\ ~rec.force /\ rec.skipped

\* ------------------------------------------ script agent: duplicate guard
\* the request has article content, and the same as the last request of
\* its thread that had any
RepeatedRequest ==
    /\ rec.addressed /\ rec.context.success
    /\ Last.has /\ Last.context = rec.context.context

\* C26: a second addressed request with the same article content in the
\* same thread is ignored by the script agent, with no script generation and
\* no reply, unless it carries force_regenerate or "force": true.
C26_DuplicateRequestIgnored ==
    (RepeatedRequest /\ message.content.force = "none") =>
        (rec.attempts = 0 /\ rec.sends = << >>)

C26_DuplicateAnswered ==
    /\ RepeatedRequest /\ message.content.force = "none"
    /\ Last.attempts = 1 /\ Last.sends = << "success" >>
    /\ rec.attempts = 1 /\ rec.script /\ rec.sends = << "success" >>

\* ------------------------------------------------- no repair of the input
\* the content holds a JSON object with a dialogue or inputs array that
\* passes the schema
ContainsValidPayload(s) ==
    \E i \in 1..Len(s) : s[i].t = "obj" /\ Attempt(s[i].obj).ok

\* C27: the provider is called for a message only if the content
\* of the message itself contains a valid {dialogue} or {inputs} payload.
C27_SynthesisOnlyFromMessageJson ==
    rec.synthCalls > 0 => ContainsValidPayload(message.content)

\* what the handler keeps to: the provider is called only with a dialogue
\* that passed the schema, which is either what local extraction recovered
\* from a valid payload in the content, or, under the policies always and
\* fallback only, the validated answer of the language model; under never a
\* message without a valid payload never reaches the provider.
SynthesisOnlyForValidatedDialogue ==
    rec.synthCalls > 0 =>
        IF rec.viaAI
        THEN /\ USE_AI_PARSE # "never"
             /\ ValidatedAnswer(inputs)
        ELSE /\ ContainsValidPayload(message.content)
             /\ attemptLocal(Trimmed).ok
             /\ inputs = attemptLocal(Trimmed).lines

C27_ProseSynthesized ==
    /\ USE_AI_PARSE = "fallback"
    /\ message.content = << Tok("prose") >>
    /\ rec.viaAI
    /\ rec.synthCalls = 1
    /\ rec.delivered = << "success" >>

C27_NeverLocalOnly ==
    /\ USE_AI_PARSE = "never"
    /\ rec.synthCalls = 1
    /\ ~rec.viaAI
    /\ rec.delivered = << "success" >>

C27_NeverRejectsProse ==
    /\ USE_AI_PARSE = "never"
    /\ message.content = << Tok("prose") >>
    /\ rec.synthCalls = 0
    /\ rec.delivered = << "parse_error" >>

\* -------------------------------------------------------- format mapping
\* the first n characters of a tag, in lower case
Leading(tag, n) ==
    IF Len(tag) >= n THEN [i \in 1..n |-> LowerChar(tag[i])] ELSE << >>

\* extension and MIME type by the family the tag begins with
MappedFormat(tag) ==
    CASE Leading(tag, 3) = << "m", "p", "3" >> -> << "mp3", "audio/mpeg" >>
      [] Leading(tag, 3) = << "w", "a", "v" >> -> << "wav", "audio/wav" >>
      [] Leading(tag, 3) = << "o", "g", "g" >> -> << "ogg", "audio/ogg" >>
      [] Leading(tag, 4) = << "f", "l", "a", "c" >> -> << "flac", "audio/flac" >>
      [] OTHER -> << "bin", "application/octet-stream" >>

\* C28: the extension of the saved file and the MIME type of the synthesis
\* result are those of the configured format tag: mp3, wav, ogg and flac
\* each with its own pair, any other tag with bin and
\* application/octet-stream; the result reports the tag itself as format.
C28_FormatMapping ==
    /\ rec.files > 0 => rec.ext = MappedFormat(ELEVENLABS_OUTPUT_FORMAT)[1]
    /\ reply.kind = "success" =>
          /\ rec.files = 1
          /\ reply.audio.mime = MappedFormat(ELEVENLABS_OUTPUT_FORMAT)[2]
          /\ reply.audio.format = ELEVENLABS_OUTPUT_FORMAT

C28_Witness ==
    /\ world.env.ELEVENLABS_OUTPUT_FORMAT = << >>
    /\ reply.audio.format = DefaultOutputFormat
    /\ rec.ext = "mp3" /\ reply.audio.mime = "audio/mpeg"
    /\ rec.delivered = << "success" >>

C28_WitnessOther ==
    /\ world.env.ELEVENLABS_OUTPUT_FORMAT = << "p", "c", "m", "_", "1", "6" >>
    /\ rec.ext = "bin" /\ reply.audio.mime = "application/octet-stream"
    /\ rec.delivered = << "success" >>

C28_WitnessUpperCase ==
    /\ world.env.ELEVENLABS_OUTPUT_FORMAT = << "F", "l", "a", "c" >>
    /\ rec.ext = "flac" /\ reply.audio.mime = "audio/flac"
    /\ rec.delivered = << "success" >>

C28_WitnessInside ==
    /\ world.env.ELEVENLABS_OUTPUT_FORMAT = << "x", "m", "p", "3" >>
    /\ rec.ext = "bin"
    /\ rec.delivered = << "success" >>

\* ---------------------------------------------------------- fenced blocks
\* the fences of s among the given kinds that have a fence after them
OpeningFences(s, kinds) ==
    { i \in 1..Len(s) : s[i].t \in kinds /\ \E j \in (i + 1)..Len(s) : s[j].t \in FenceKinds }

\* the interior of the block that the fence at i opens
Interior(s, i) ==
    LET j == CHOOSE k \in (i + 1)..Len(s) :
                 /\ s[k].t \in FenceKinds
                 /\ \A l \in (i + 1)..(k - 1) : s[l].t \notin FenceKinds
    IN  SubSeq(s, i + 1, j - 1)

Earliest(S) == CHOOSE i \in S : \A k \in S : i <= k

\* the interior of the first block of s, tagged or not
FirstBlock(s) == Interior(s, Earliest(OpeningFences(s, FenceKinds)))

\* the interior of the first block tagged json, of the first block if none is
PreferredBlock(s) ==
    IF OpeningFences(s, {"fencejson"}) # {}
    THEN Interior(s, Earliest(OpeningFences(s, {"fencejson"})))
    ELSE FirstBlock(s)

\* local extraction has run on a content with a block
FencedContentSeen == rec.local # "none" /\ OpeningFences(Trimmed, FenceKinds) # {}

\* C29 as stated: the candidate of the fenced-block strategy is the interior
\* of the first triple-backtick block of the text, tagged json or not; a
\* later block is never chosen over an earlier one.
C29_FirstBlockChosen ==
    FencedContentSeen =>
        /\ FenceMatch(Trimmed).found
        /\ FenceMatch(Trimmed).body = FirstBlock(Trimmed)
        /\ (LocalInUse /\ rec.via = "fenced" /\ PastExtraction) =>
               inputs = ParsedAttempt(FirstBlock(Trimmed)).lines

\* C29 amended: the candidate is the interior of the first block tagged
\* json when the text has one, whatever precedes it, and the interior of the
\* first block otherwise; a dialogue recovered by the strategy is the
\* dialogue of that candidate.
C29_TaggedBlockPreferred ==
    FencedContentSeen =>
        /\ FenceMatch(Trimmed).found
        /\ FenceMatch(Trimmed).body = PreferredBlock(Trimmed)
        /\ (LocalInUse /\ rec.via = "fenced" /\ PastExtraction) =>
               inputs = ParsedAttempt(PreferredBlock(Trimmed)).lines

C29_Witness ==
    /\ message.content = UntaggedThenTagged
    /\ rec.via = "fenced" /\ LocalInUse
    /\ inputs = ValidD2
    /\ rec.delivered = << "success" >>

C29_WitnessTaggedFirst ==
    /\ message.content = TaggedThenUntagged
    /\ rec.via = "fenced" /\ LocalInUse
    /\ inputs = ValidD2
    /\ rec.delivered = << "success" >>

C29_WitnessUntagged ==
    /\ message.content = FencedThenLoose
    /\ rec.via = "fenced" /\ LocalInUse
    /\ inputs = ValidD2
    /\ rec.delivered = << "success" >>

\* ------------------------------------------------- sequential processing
\* the positions inside handleMessage
InHandler == pc \in {"extract", "ai", "dedup", "synth", "send", "done"}

\* C30: at most one message is being handled: a message enters the handler,
\* and a batch is polled, only when no message is in the handler, the
\* previous one having returned after its reply, its error or its skip; so
\* the provider is called for one message at a time, at most once for each,
\* and every read-modify-write of the dedup map is one step of the one
\* message in the handler.
C30_OneMessageAtATime ==
    [][/\ InHandler <=> message # NoMessage
       /\ message' # message =>
             \/ /\ message = NoMessage /\ pc = "next" /\ rec = FreshRec
                /\ pc' \in {"extract", "done"}
             \/ /\ message' = NoMessage /\ pc = "done"
                /\ (rec.addressed =>
                       \/ rec.sendCalls > 0
                       \/ rec.skipped
                       \/ rec.escaped)
       /\ remaining' > remaining => (pc = "poll" /\ message = NoMessage)
       /\ rec'.synthCalls > rec.synthCalls =>
             (pc = "synth" /\ rec.synthCalls = 0 /\ pc' = "send" /\ message' = message)
       /\ recentDialogueHashes' # recentDialogueHashes =>
             /\ pc = "dedup" /\ message' = message
             /\ \A t \in Threads \ {message.threadId} :
                   recentDialogueHashes'[t] = recentDialogueHashes[t]]_vars

C30_Witness ==
    /\ pc = "synth"
    /\ remaining = 1
    /\ message.threadId = "t2"
    /\ prev["t1"].has /\ prev["t1"].synth
    /\ rec.decided /\ ~rec.skipped

C30_WitnessSkipThenNext ==
    /\ pc = "extract"
    /\ prev[message.threadId].has /\ prev[message.threadId].dup
    /\ rec.addressed /\ rec.sendCalls = 0

\* ------------------------------------------------------ no request retries
\* C31: for every message, under every parse policy, at most one request
\* goes to the language model and at most one to the provider, whatever
\* their outcomes.
C31_NoRequestRetries ==
    /\ rec.aiCalls <= 1
    /\ rec.synthCalls <= 1
    /\ (pc = "ai" => rec.aiCalls = 0)
    /\ (pc = "synth" => rec.synthCalls = 0)

C31_Witness ==
    /\ pc = "done"
    /\ USE_AI_PARSE = "fallback"
    /\ rec.ai = "threw" /\ rec.aiCalls = 1
    /\ rec.synthCalls = 0
    /\ rec.delivered = << "parse_error" >>

C31_WitnessProviderFails ==
    /\ pc = "done"
    /\ rec.viaAI /\ rec.aiCalls = 1
    /\ rec.synthCalls = 1 /\ ~rec.synthOk
    /\ rec.delivered = << "failure" >>

C31_WitnessAlways ==
    /\ pc = "done"
    /\ USE_AI_PARSE = "always"
    /\ rec.ai = "invalid" /\ rec.aiCalls = 1 /\ rec.local = "ok"
    /\ rec.synthCalls = 1

\* ------------------------------------------------ effective inline ceiling
\* the positive integer that a value of the option parses to, 0 if none
ConfiguredCeiling(raw) ==
    CASE raw = "1000" -> 1000
      [] raw = "9000000" -> 9000000
      [] raw = "12abc" -> 12
      [] OTHER -> 0

\* min(v, 8 MiB), v the parsed value if positive and 5 MiB otherwise
StatedCeiling(raw) ==
    LET v == IF ConfiguredCeiling(raw) > 0 THEN ConfiguredCeiling(raw) ELSE 5242880
    IN  IF v <= 8388608 THEN v ELSE 8388608

\* C32: for every value of the MAX_INLINE_BYTES option the effective
\* ceiling is the smaller of 8 MiB and the value, taken as 5 MiB when it
\* does not parse to a positive integer; the ceiling is between 1 and
\* 8388608 and no payload larger than 8 MiB is ever put inline.
C32_EffectiveInlineCeiling ==
    /\ MAX_INLINE_BYTES = StatedCeiling(world.env.MAX_INLINE_BYTES)
    /\ MAX_INLINE_BYTES >= 1 /\ MAX_INLINE_BYTES <= 8388608
    /\ reply.audio.inline =>
          (reply.audio.bytes <= 8388608 /\ reply.audio.bytes <= MAX_INLINE_BYTES)

C32_Witness ==
    /\ world.env.MAX_INLINE_BYTES = "9000000"
    /\ MAX_INLINE_BYTES = 8388608
    /\ reply.audio.bytes = 8388608 /\ reply.audio.inline
    /\ rec.delivered = << "success" >>

C32_WitnessOverCap ==
    /\ world.env.MAX_INLINE_BYTES = "9000000"
    /\ reply.audio.bytes = 8388609 /\ ~reply.audio.inline
    /\ rec.delivered = << "success" >>

C32_WitnessNegative ==
    /\ world.env.MAX_INLINE_BYTES = "-5"
    /\ MAX_INLINE_BYTES = 5242880
    /\ reply.audio.bytes = 5242880 /\ reply.audio.inline
    /\ rec.delivered = << "success" >>

C32_WitnessZero ==
    /\ world.env.MAX_INLINE_BYTES = "0"
    /\ MAX_INLINE_BYTES = 5242880
    /\ reply.audio.bytes = 5242881 /\ ~reply.audio.inline

C32_WitnessNotNumeric ==
    /\ world.env.MAX_INLINE_BYTES \in {"", "abc"}
    /\ MAX_INLINE_BYTES = 5242880
    /\ reply.audio.inline

C32_WitnessLeadingDigits ==
    /\ world.env.MAX_INLINE_BYTES = "12abc"
    /\ MAX_INLINE_BYTES = 12
    /\ reply.kind = "success" /\ ~reply.audio.inline

\* ----------------------------------------------------------- empty content
\* an addressed message with empty or whitespace-only content is past the
\* first step of the handler
EmptyContentHandled ==
    rec.addressed /\ Trimmed = << >> /\ pc # "extract"

\* C33: for an addressed message whose content is empty or only
\* whitespace, under every parse policy, extraction fails with the
\* empty-content error before any local strategy or request to the language
\* model, and the message gets an error reply.
C33_EmptyContentRejectedFirst ==
    EmptyContentHandled =>
        /\ pc \in {"send", "done"}
        /\ rec.parseError
        /\ rec.local = "none" /\ rec.via = "none"
        /\ rec.aiCalls = 0 /\ rec.ai = "none"
        /\ rec.synthCalls = 0 /\ ~rec.decided
        /\ reply.kind = "parse_error"
        /\ reply.error.body = "Empty message content; expected JSON with dialogue or inputs"
        /\ (pc = "done" => rec.sends = 1)

C33_Witness ==
    /\ USE_AI_PARSE = "always"
    /\ message.content = << Tok("ws") >>
    /\ EmptyContentHandled
    /\ rec.delivered = << "parse_error" >>

C33_WitnessEmpty ==
    /\ USE_AI_PARSE = "fallback"
    /\ message.content = << >>
    /\ EmptyContentHandled
    /\ rec.delivered = << "parse_error" >>

C33_WitnessOtherError ==
    /\ USE_AI_PARSE = "never"
    /\ message.content = << Tok("prose") >>
    /\ reply.error.body = "Unable to parse JSON locally and AI parse disabled"
    /\ rec.delivered = << "parse_error" >>

\* ------------------------------------------------ frame of rejected messages
\* the message in the handler is rejected or not for the agent
NotAccepted == message # NoMessage /\ (~rec.addressed \/ rec.parseError)

\* lines is a dialogue that passes the schema
ValidatedDialogue(lines) ==
    /\ Len(lines) >= 1 /\ Len(lines) <= MaxLines
    /\ \A i \in 1..Len(lines) :
          /\ lines[i].voice_id # NoVoice
          /\ TextLength(lines[i].text) >= 1 /\ TextLength(lines[i].text) <= MaxTextLen

\* C34: a message that is not addressed to the agent, or whose extraction
\* fails, leaves the dedup map as it was for every thread and triggers no
\* provider call; the dedup map changes only inside the dedup decision of a
\* message with a validated dialogue, and no entry is ever removed.
C34_FrameOfRejectedMessages ==
    [][/\ NotAccepted =>
             /\ recentDialogueHashes' = recentDialogueHashes
             /\ rec.synthCalls = 0 /\ ~rec.decided
             /\ pc \notin {"dedup", "synth"} /\ pc' \notin {"dedup", "synth"}
       /\ recentDialogueHashes' # recentDialogueHashes =>
             /\ pc = "dedup" /\ rec.addressed /\ ~rec.parseError
             /\ ValidatedDialogue(inputs)
             /\ rec'.decided /\ ~rec'.skipped
             /\ recentDialogueHashes'[message.threadId] = computeDialogueHash(inputs)
       /\ \A t \in Threads :
             recentDialogueHashes[t] # NoHash => recentDialogueHashes'[t] # NoHash]_vars

C34_Witness ==
    /\ pc = "done"
    /\ NotAccepted /\ rec.parseError
    /\ message.threadId = "t1"
    /\ prev["t1"].has
    /\ recentDialogueHashes["t1"] = computeDialogueHash(prev["t1"].inputs)
    /\ recentDialogueHashes["t2"] # NoHash

C34_WitnessNotAddressed ==
    /\ pc = "done"
    /\ ~rec.addressed
    /\ prev[message.threadId].has
    /\ recentDialogueHashes[message.threadId] = computeDialogueHash(prev[message.threadId].inputs)

\* ------------------------------------------- batches and escaping errors
\* the program is at a position of the loop or of the handler, where a
\* step is always possible: there is no position after the loop
InLoop ==
    /\ pc \in {"poll", "next", "sleep", "extract", "ai", "dedup", "synth", "send", "done"}
    /\ (pc = "next" /\ remaining > 0) => world.inbox # {}
    /\ remaining \in 0..MaxBatch

\* the steps of the main loop around handleMessage
LoopStep ==
    /\ pc = "poll" => (pc' \in {"next", "sleep"} /\ message' = NoMessage)
    /\ (pc = "poll" /\ pc' = "sleep") => remaining' = remaining
    /\ pc = "sleep" => (pc' = "poll" /\ remaining = 0 /\ remaining' = 0 /\ message = NoMessage)
    /\ pc = "next" =>
          IF remaining = 0
          THEN pc' = "poll" /\ message' = NoMessage
          ELSE /\ message' \in world.inbox
               /\ remaining' = remaining - 1
               /\ pc' \in {"extract", "done"}
    /\ rec.escaped => pc = "done"
    /\ pc = "done" =>
          /\ message' = NoMessage
          /\ IF rec.escaped
             THEN pc' = "sleep" /\ remaining' = 0
             ELSE pc' = "next" /\ remaining' = remaining

C35_WitnessAfterPause ==
    /\ pc = "sleep"
    /\ remaining = 0
    /\ \E t \in Threads : recentDialogueHashes[t] # NoHash

C35_WitnessGoesOn ==
    /\ pc = "next"
    /\ remaining = 1
    /\ \E t \in Threads : lastSynthesized[t] # NoHash

\* ---------------------------------------- script agent: character budget
\* C36: every script that generatePodcastScript returns, and so every
\* script sent as a reply, has texts of at most 2400 characters together;
\* an output over the budget is never returned: it sets the adjustment
\* request for another attempt.
C36_ScriptWithinBudget ==
    /\ rec.script =>
          /\ rec.chars <= 2400
          /\ pc \in {"reply", "done"}
    /\ reply.kind = "script" => (rec.script /\ rec.chars <= 2400)
    /\ (rec.addressed /\ rec.chars > 2400) =>
          /\ ~rec.script
          /\ rec.extra = "shorten"
          /\ reply.kind # "script"
          /\ (pc = "generate" <=> rec.attempts < 3)

C36_Witness ==
    /\ rec.script /\ rec.chars = 2400
    /\ rec.attempts = 2 /\ rec.extra = "shorten"
    /\ rec.sends = << "success" >>

C36_WitnessOver ==
    /\ pc = "generate"
    /\ rec.chars = 2401
    /\ rec.attempts = 2

C36_WitnessOverThrice ==
    /\ pc = "done"
    /\ rec.chars = 2401 /\ rec.attempts = 3 /\ rec.lastError = ""
    /\ reply.kind = "error"

\* ---------------------------------------- script agent: retry bound
\* the request had article content, so generatePodcastScript was called
Generating == rec.addressed /\ rec.context.success

\* generatePodcastScript threw
GenerationThrew == Generating /\ pc = "done" /\ ~rec.script

\* C37: for an addressed message with content, generatePodcastScript runs
\* the model at most 3 times and ends: each pass of its loop is one more
\* run; the first script within the budget is returned and no run follows
\* it; the loop goes on only after a run that threw or was over the budget;
\* it throws only after 3 such runs, and then the message gets exactly one
\* error reply and no script reply.
C37_RetryBound ==
    [][ /\ rec.attempts <= 3
        /\ (pc = "generate") =>
              /\ Generating /\ ~rec.script /\ rec.attempts < 3 /\ rec.sends = << >>
              /\ rec'.attempts = rec.attempts + 1
              /\ pc' \in {"generate", "reply", "done"}
              /\ (pc' = "generate") => (rec'.chars > 2400 \/ rec'.lastError # "")
              /\ (pc' = "generate") => (rec'.chars > 2400 \/ rec'.chars = 0)
              /\ (pc' = "reply") => (rec'.script /\ rec'.chars \in 1..2400)
              /\ (pc' = "done") => (rec'.attempts = 3 /\ ~rec'.script)
        /\ (pc # "generate") => (rec'.attempts = rec.attempts \/ rec' = FreshScriptRec)
        /\ (pc = "reply") => (pc' = "done" /\ rec'.script /\ reply'.kind = "script"
                              /\ Len(rec'.sends) = 1)
        /\ GenerationThrew =>
              /\ rec.attempts = 3
              /\ Len(rec.sends) = 1
              /\ reply.kind = "error"
      ]_vars

C37_Witness ==
    /\ GenerationThrew
    /\ rec.attempts = 3 /\ rec.sends = << "success" >>
    /\ rec.lastError = "voice_id" /\ rec.extra = "shorten"

C37_WitnessFirstRun ==
    /\ pc = "done" /\ rec.script /\ rec.attempts = 1
    /\ reply.kind = "script"

C37_WitnessThirdRun ==
    /\ pc = "done" /\ rec.script /\ rec.attempts = 3
    /\ rec.lastError = "other" /\ reply.kind = "script"

C37_WitnessBlankContent ==
    /\ pc = "done" /\ rec.addressed /\ ~rec.context.success
    /\ rec.attempts = 0 /\ reply.kind = "error"

\* =================================================================
\* The article fetcher (src/src/index.ts).  Its main loop, shouldRespond
\* and normalizeMention have the shape of the generator's; a message content
\* is a sequence of one-character strings.
\* =================================================================
ToLower(s) == [i \in 1..Len(s) |-> LowerChar(s[i])]

\* [^\s)]
IsUrlChar(c) == ~IsSpace(c) /\ c # ")"

\* the length of https?:\/\/ matched at i without regard to case, 0 if none
SchemeAt(text, i) ==
    IF i + 6 <= Len(text) /\ ToLower(SubSeq(text, i, i + 6)) = << "h", "t", "t", "p", ":", "/", "/" >>
    THEN 7
    ELSE IF i + 7 <= Len(text) /\ ToLower(SubSeq(text, i, i + 7)) = << "h", "t", "t", "p", "s", ":", "/", "/" >>
    THEN 8
    ELSE 0

\* the pattern matches at i: the scheme and at least one more character
MatchesAt(text, i) ==
    LET n == SchemeAt(text, i)
    IN  n > 0 /\ i + n <= Len(text) /\ IsUrlChar(text[i + n])

\* the last index of the greedy run [^\s)]+ that holds index j
RECURSIVE MatchEnd(_, _)
MatchEnd(text, j) ==
    IF j < Len(text) /\ IsUrlChar(text[j + 1]) THEN MatchEnd(text, j + 1) ELSE j

\* .replace(/[.,!?;:]+$/, "")
RECURSIVE StripPunctuation(_)
StripPunctuation(s) ==
    IF s # << >> /\ s[Len(s)] \in {".", ",", "!", "?", ";", ":"}
    THEN StripPunctuation(SubSeq(s, 1, Len(s) - 1))
    ELSE s

\* extractFirstUrl; << >> stands for null
extractFirstUrl(text) ==
    IF \E i \in 1..Len(text) : MatchesAt(text, i)
    THEN LET i == CHOOSE k \in 1..Len(text) :
                      /\ MatchesAt(text, k)
                      /\ \A l \in 1..(k - 1) : ~MatchesAt(text, l)
         IN  StripPunctuation(SubSeq(text, i, MatchEnd(text, i + SchemeAt(text, i))))
    ELSE << >>

UrlA == << "h", "t", "t", "p", ":", "/", "/", "a" >>
UrlB == << "h", "t", "t", "p", "s", ":", "/", "/", "b" >>
UrlUpper == << "H", "T", "T", "P", ":", "/", "/", "a" >>

TextOneUrl == << "x", " ", "h", "t", "t", "p", ":", "/", "/", "a" >>
TextTwoUrls == << "h", "t", "t", "p", ":", "/", "/", "a", " ", "h", "t", "t", "p", "s", ":", "/", "/", "b" >>
TextPunctuated == << "h", "t", "t", "p", ":", "/", "/", "a", ".", "," >>
TextBracketed == << "(", "h", "t", "t", "p", "s", ":", "/", "/", "b", ")", "." >>
TextUpper == << "H", "T", "T", "P", ":", "/", "/", "a" >>
TextNoUrl == << "a", " ", "b", "." >>
TextOtherScheme == << "f", "t", "p", ":", "/", "/", "a" >>
TextBareScheme == << "h", "t", "t", "p", ":", "/", "/", " ", "a" >>

FetcherTexts ==
    { TextOneUrl, TextTwoUrls, TextPunctuated, TextBracketed, TextUpper, TextNoUrl,
      TextOtherScheme, TextBareScheme, << >> }

FetcherWorld ==
    [inbox |-> { ToMe(t, c) : t \in Threads, c \in FetcherTexts }
               \cup { Msg("t1", User, << Id(TRUE, "bob", "") >>, TextOneUrl),
                      Msg("t2", AgentId, << Id(FALSE, CORAL_AGENT_ID, "") >>, TextOneUrl),
                      Msg("t2", User, << >>, TextTwoUrls) },
     answers |-> {},
     responses |-> {},
     env |-> PlainEnv]

\* addressed: shouldRespond held; url: the result of extractFirstUrl;
\* fetches: the URLs handed to extractArticle; article: "ok" when
\* extractArticle and buildCleanArticle returned, "threw" when one of them
\* threw; sends: the replies handed to sendMessage with the outcome of each
\* call; escaped: an exception left handleMessage
FreshFetcherRec ==
    [addressed |-> FALSE, url |-> << >>, fetches |-> << >>, article |-> "none",
     sends |-> << >>, escaped |-> FALSE]

FetcherReply(kind, url, m) ==
    [kind |-> kind, url |-> url, mentions |-> << m.senderId, AgentId >>]

NoFetcherReply == [kind |-> "none", url |-> << >>, mentions |-> << >>]

Sent(kind, how) == [kind |-> kind, how |-> how]

InitFetcher ==
    /\ world = FetcherWorld
    /\ USE_AI_PARSE = "never"
    /\ recentDialogueHashes = [t \in Threads |-> NoHash]
    /\ pc = "poll"
    /\ remaining = 0
    /\ message = NoMessage
    /\ inputs = << >>
    /\ force = FALSE
    /\ reply = NoFetcherReply
    /\ rec = FreshFetcherRec
    /\ prev = [t \in Threads |-> << >>]
    /\ lastSynthesized = [t \in Threads |-> NoHash]

\* handleMessage of the fetcher up to the URL: a message that is not
\* addressed is dropped; without a URL the error reply is sent outside
\* any try
FetcherHandleMessage ==
    /\ pc = "next"
    /\ remaining > 0
    /\ remaining' = remaining - 1
    /\ \E m \in world.inbox :
         /\ message' = m
         /\ IF ~shouldRespond(m)
            THEN /\ pc' = "done"
                 /\ UNCHANGED << rec, reply >>
            ELSE LET url == extractFirstUrl(m.content)
                     r == [rec EXCEPT !.addressed = TRUE, !.url = url]
                 IN  IF url = << >>
                     THEN \E how \in SendOutcomes :
                            /\ rec' = [r EXCEPT !.sends = Append(@, Sent("no_url", how)),
                                                !.escaped = (how = "threw")]
                            /\ reply' = FetcherReply("no_url", << >>, m)
                            /\ pc' = "done"
                     ELSE /\ rec' = r
                          /\ pc' = "fetch"
                          /\ UNCHANGED reply
    /\ UNCHANGED << world, USE_AI_PARSE, recentDialogueHashes, inputs, force, prev,
                    lastSynthesized >>

\* extractArticle and buildCleanArticle inside the try: one fetch of the URL;
\* a failed fetch, a timeout or a page without an article throws
ExtractArticle ==
    /\ pc = "fetch"
    /\ \E outcome \in {"ok", "threw"} :
         /\ rec' = [rec EXCEPT !.fetches = Append(@, rec.url), !.article = outcome]
         /\ pc' = IF outcome = "ok" THEN "reply" ELSE "catch"
    /\ UNCHANGED << world, USE_AI_PARSE, recentDialogueHashes, remaining, message, inputs, force,
                    reply, prev, lastSynthesized >>

\* the reply with the cleaned text, sent inside the same try: a throw of
\* sendMessage goes to the catch
SendArticle ==
    /\ pc = "reply"
    /\ \E how \in SendOutcomes :
         /\ rec' = [rec EXCEPT !.sends = Append(@, Sent("data", how))]
         /\ pc' = IF how = "threw" THEN "catch" ELSE "done"
    /\ reply' = FetcherReply("data", rec.url, message)
    /\ UNCHANGED << world, USE_AI_PARSE, recentDialogueHashes, remaining, message, inputs, force,
                    prev, lastSynthesized >>

\* the catch: the {success: false, url, error} reply; a throw of this
\* sendMessage leaves handleMessage
SendFailure ==
    /\ pc = "catch"
    /\ \E how \in SendOutcomes :
         rec' = [rec EXCEPT !.sends = Append(@, Sent("failure", how)),
                            !.escaped = (how = "threw")]
    /\ reply' = FetcherReply("failure", rec.url, message)
    /\ pc' = "done"
    /\ UNCHANGED << world, USE_AI_PARSE, recentDialogueHashes, remaining, message, inputs, force,
                    prev, lastSynthesized >>

\* prev: the replies of the last addressed message of each thread
FetcherReturn ==
    /\ pc = "done"
    /\ pc' = IF rec.escaped THEN "sleep" ELSE "next"
    /\ remaining' = IF rec.escaped THEN 0 ELSE remaining
    /\ prev' = IF rec.addressed THEN [prev EXCEPT ![message.threadId] = rec.sends] ELSE prev
    /\ message' = NoMessage
    /\ reply' = NoFetcherReply
    /\ rec' = FreshFetcherRec
    /\ UNCHANGED << world, USE_AI_PARSE, recentDialogueHashes, inputs, force, lastSynthesized >>

NextFetcher ==
    \/ WaitForMentions
    \/ WaitForMentionsThrows
    \/ Sleep
    \/ BatchDone
    \/ FetcherHandleMessage
    \/ ExtractArticle
    \/ SendArticle
    \/ SendFailure
    \/ FetcherReturn

SpecFetcher == InitFetcher /\ [][NextFetcher]_vars

\* ---------------------------------------- fetcher: per-message protocol
\* the first http(s) URL of each sample text
FirstUrlOf(text) ==
    CASE text \in {TextOneUrl, TextTwoUrls, TextPunctuated} -> UrlA
      [] text = TextBracketed -> UrlB
      [] text = TextUpper -> UrlUpper
      [] OTHER -> << >>

\* handleMessage has returned or thrown
Handled == pc = "done"

\* C38: a message addressed to the fetcher gets exactly one reply attempt;
\* without an http(s) URL in the content it is the error reply and nothing
\* is fetched; otherwise the first URL of the content is fetched exactly
\* once and the reply is the cleaned article, or the failure reply if
\* fetching or extraction threw; a message that is not addressed gets no
\* fetch and no reply.
C38_OneReplyPerMessage ==
    /\ Len(rec.fetches) <= 1
    /\ rec.fetches # << >> => rec.fetches[1] = FirstUrlOf(message.content)
    /\ (rec.sends # << >> /\ rec.sends[1].kind = "no_url") =>
          (FirstUrlOf(message.content) = << >> /\ rec.fetches = << >>)
    /\ Handled =>
          IF ~shouldRespond(message)
          THEN rec.fetches = << >> /\ rec.sends = << >>
          ELSE /\ Len(rec.sends) = 1
               /\ IF FirstUrlOf(message.content) = << >>
                  THEN rec.sends[1].kind = "no_url" /\ rec.fetches = << >>
                  ELSE /\ rec.fetches = << FirstUrlOf(message.content) >>
                       /\ rec.sends[1].kind =
                             (IF rec.article = "threw" THEN "failure" ELSE "data")

\* the protocol of C38 for the messages whose article reply, if any, was
\* handed over without a throw of sendMessage
C38_ProtocolWhenSendReturns ==
    (\A i \in 1..Len(rec.sends) : rec.sends[i].kind = "data" => rec.sends[i].how # "threw")
        => C38_OneReplyPerMessage

\* the article was fetched and extracted, the send of its text threw, and
\* the failure reply was sent as a second reply
C38_SecondReplyAfterFailedSend ==
    /\ Handled
    /\ message.content = TextTwoUrls
    /\ rec.fetches = << UrlA >> /\ rec.article = "ok"
    /\ rec.sends = << Sent("data", "threw"), Sent("failure", "success") >>
    /\ reply.kind = "failure"

C38_ArticleReplied ==
    /\ Handled
    /\ message.content = TextBracketed
    /\ rec.fetches = << UrlB >> /\ rec.article = "ok"
    /\ rec.sends = << Sent("data", "success") >>

C38_FailureReplied ==
    /\ Handled
    /\ message.content = TextUpper
    /\ rec.fetches = << UrlUpper >> /\ rec.article = "threw"
    /\ rec.sends = << Sent("failure", "success") >>

C38_NoUrlReplied ==
    /\ Handled
    /\ message.content = TextBareScheme
    /\ rec.fetches = << >>
    /\ rec.sends = << Sent("no_url", "success") >>

====
